---- MODULE Spec2Model ----
(***************************************************************************)
(* The tool-call orchestration loop of agent-zero: AgentManager.run_agent  *)
(* driving an Agent whose Model adapter is the OpenAI-compatible, the      *)
(* Anthropic or the Google GenAI one.  Model calls, tool executions and    *)
(* container processes are the blocking points of run_agent; the model     *)
(* takes one step per blocking point.                                      *)
(***************************************************************************)
EXTENDS Integers, Sequences, FiniteSets, TLC

\* ------------------------------------------------------------------ bounds
\* Total number of model (vendor API) calls in one behaviour.
MaxModelCalls ==
    3
\* Total number of tool calls the model stub may request in one behaviour.
MaxToolCalls ==
    3
\* Largest number of tool calls in one model response.
MaxBatch ==
    2
\* Longest history a caller builds through the Agent's own methods.
MaxMessages ==
    2
\* Model calls of a behaviour that runs stream_workflow.
MaxWorkflowCalls ==
    4

\* Agents in the registry when a thread starts an add_agent call.
MaxRegistered ==
    3

\* Container.run calls of a behaviour.
MaxRuns ==
    2

\* Tool-call deltas of one streamed response.
MaxDeltas ==
    3

\* Longest chain of steps of a workflow.
MaxSteps ==
    2

\* ------------------------------------------------------- optional values
\* Python's None / a present value, as a sequence of length 0 / 1.
None ==
    <<>>
Some(x) ==
    <<x>>
Get(o) ==
    o[1]

\* ------------------------------------------------------- the test doubles
Vendors ==
    {"openai", "anthropic", "genai"}

\* Agent objects; A1 and A2 are two distinct objects sharing the name "A".
\* A2 is built without tools.
AgentObjs ==
    {"A1", "A2", "B1"}
AgentName(a) ==
    IF a = "B1" THEN "B" ELSE "A"
\* Names a caller may pass; "C" is never registered.
CallerNames ==
    {"A", "B", "C"}
CallerInputs ==
    {None, Some("hello")}
InitialInstruction(a) ==
    IF a = "B1" THEN "be B" ELSE "be A"

\* Tools: plain functions (kind "function", named by __name__) and
\* Containers (kind "container", named by .name).
ToolAdd ==
    [kind |-> "function", name |-> "add", impl |-> "add"]
ToolAddShadowed ==
    [kind |-> "function", name |-> "add", impl |-> "mul"]
ToolDiv ==
    [kind |-> "function", name |-> "div", impl |-> "div"]
\* A second function named "div", behind the first in B1's list.
ToolDivShadowed ==
    [kind |-> "function", name |-> "div", impl |-> "add"]
ToolTransferToB ==
    [kind |-> "function", name |-> "transfer_to_b", impl |-> "to_b"]
ToolTransferToA ==
    [kind |-> "function", name |-> "transfer_to_a", impl |-> "to_a"]
ToolRunner ==
    [kind |-> "container", name |-> "runner", impl |-> "plain"]
ToolEscalate ==
    [kind |-> "container", name |-> "escalate", impl |-> "return_to_b"]
InitialTools(a) ==
    CASE a = "A1" -> <<ToolAdd, ToolTransferToB, ToolAddShadowed, ToolEscalate>>
      [] a = "B1" -> <<ToolDiv, ToolRunner, ToolTransferToA, ToolDivShadowed>>
      [] OTHER    -> <<>>

\* return_to of the "escalate" container: {"agent": B1, "instruction": ...}
ReturnToAgent ==
    "B1"
ReturnToPrefix ==
    "Use: "

\* Outcomes of the container process: its output, or a launch failure.
ProcOutcomes ==
    {[ok |-> TRUE, out |-> "42"], [ok |-> FALSE, out |-> "exit 1"]}

\* ------------------------------------------------------------ JSON values
\* Argument payloads: a JSON-encoded string (OpenAI) or a native object.
ArgsGood ==
    [a |-> 2, b |-> 3]
ArgsZero ==
    [a |-> 1, b |-> 0]
StrGood ==
    "{\"a\": 2, \"b\": 3}"
StrZero ==
    "{\"a\": 1, \"b\": 0}"
StrMalformed ==
    "{\"a\": 2, "
AsStr(s) ==
    [type |-> "str", str |-> s]
AsDict(d) ==
    [type |-> "dict", dict |-> d]
AsList(l) ==
    [type |-> "list", list |-> l]

\* json.loads on the argument strings of the model stub.
json_loads(s) ==
    CASE s = StrGood -> [ok |-> TRUE, val |-> ArgsGood]
      [] s = StrZero -> [ok |-> TRUE, val |-> ArgsZero]
      [] OTHER       -> [ok |-> FALSE, val |-> ArgsGood]

\* ------------------------------------------------ vendor-native tool calls
\* The tool-call object each vendor SDK hands back for a request of tool
\* `name` with call id `id`.
NativeToolCall(v, id, name, good) ==
    CASE v = "openai" ->
           [id |-> id, type |-> "function",
            function |-> [name |-> name,
                          arguments |-> AsStr(IF good THEN StrGood ELSE StrMalformed)]]
      [] v = "anthropic" ->
           [id |-> id, type |-> "tool_use", name |-> name, input |-> AsDict(ArgsGood)]
      [] OTHER ->
           [id |-> id, name |-> name, args |-> AsDict(ArgsGood)]
NativeDivByZero(v, id) ==
    CASE v = "openai" ->
           [id |-> id, type |-> "function",
            function |-> [name |-> "div", arguments |-> AsStr(StrZero)]]
      [] v = "anthropic" ->
           [id |-> id, type |-> "tool_use", name |-> "div", input |-> AsDict(ArgsZero)]
      [] OTHER ->
           [id |-> id, name |-> "div", args |-> AsDict(ArgsZero)]

\* Tool calls the model stub may request of agent a: tools of A1, tools of
\* B1 and, where arguments travel as JSON text, malformed argument strings,
\* and of A2, which has no tool, a tool that does not exist ("ghost").
RequestableCalls(a, v) ==
    CASE a = "A1" ->
           { NativeToolCall(v, "c1", "add", TRUE),
             NativeToolCall(v, "c2", "transfer_to_b", TRUE),
             NativeToolCall(v, "c4", "escalate", TRUE) }
      [] a = "B1" ->
           { NativeDivByZero(v, "c6"),
             NativeToolCall(v, "c3", "runner", TRUE),
             NativeToolCall(v, "c7", "transfer_to_a", TRUE) }
           \cup (IF v = "openai"
                 THEN { NativeToolCall(v, "c8", "div", FALSE),
                        NativeToolCall(v, "c9", "ghost", FALSE) }
                 ELSE {})
      [] OTHER ->
           { NativeToolCall(v, "c5", "ghost", TRUE) }

\* Non-empty batches of at most MaxBatch tool calls within the budget n; the
\* vendor gives every call of one response its own id.
Batches(calls, n) ==
    UNION { { b \in [1..k -> calls] :
                \A i, j \in 1..k : b[i].id = b[j].id => i = j } :
            k \in 1..(IF n < MaxBatch THEN n ELSE MaxBatch) }

\* What generate_response returns: {"content", "tool_calls"} (the GenAI
\* adapter adds "candidates", whose first content holds the same calls as
\* function_call parts under role "model").  tool_calls is None or a list.
ResponseWithCalls(v, batch) ==
    [content |-> IF v = "genai" THEN "" ELSE "calling",
     tool_calls |-> Some(batch)]
PlainResponses(v) ==
    { [content |-> "hi", tool_calls |-> IF v = "anthropic" THEN Some(<<>>) ELSE None],
      [content |-> "5",  tool_calls |-> Some(<<>>)] }
ModelResponses(a, v, budget) ==
    PlainResponses(v)
      \cup { ResponseWithCalls(v, b) : b \in Batches(RequestableCalls(a, v), budget) }

\* ---------------------------------------------------------------- adapters
\* Model.get_keys_in_tool_output of each vendor.
get_keys_in_tool_output(v, tool_call) ==
    CASE v = "openai" ->
           [id |-> tool_call.id, name |-> tool_call.function.name,
            arguments |-> tool_call.function.arguments]
      [] v = "anthropic" ->
           [id |-> tool_call.id, name |-> tool_call.name,
            arguments |-> tool_call.input]
      [] OTHER ->
           [id |-> tool_call.id, name |-> tool_call.name,
            arguments |-> tool_call.args]

\* populate_template(_get_tool_call_format(), output)
populate_tool_call(v, output) ==
    IF v = "openai"
    THEN [id |-> output.id, type |-> "function",
          function |-> [name |-> output.name, arguments |-> output.arguments]]
    ELSE [type |-> "tool_use", id |-> output.id, name |-> output.name,
          input |-> output.arguments]

\* Model.get_assistant_message: the message(s) for the model's own turn,
\* always returned here as a list (the caller appends a dict, extends a list).
get_assistant_message(v, response) ==
    LET calls == Get(response.tool_calls)
        out   == [i \in 1..Len(calls) |->
                    populate_tool_call(v, get_keys_in_tool_output(v, calls[i]))]
    IN CASE v = "openai" ->
              << [role |-> "assistant", content |-> response.content,
                  tool_calls |-> out] >>
         [] v = "anthropic" ->
              << [role |-> "assistant", content |-> out] >>
         [] OTHER ->
              << [role |-> "model",
                  content |-> [i \in 1..Len(calls) |->
                     [function_call |-> [name |-> calls[i].name,
                                         args |-> calls[i].args]]]] >>

\* Model.get_tool_message: the message(s) carrying the tool results.
get_tool_message(v, tool_responses) ==
    CASE v = "openai" ->
           [i \in 1..Len(tool_responses) |->
              [role |-> "tool", content |-> tool_responses[i].tool_result,
               tool_call_id |-> tool_responses[i].id]]
      [] v = "anthropic" ->
           << [role |-> "user",
               content |-> [i \in 1..Len(tool_responses) |->
                  [type |-> "tool_result",
                   tool_use_id |-> tool_responses[i].id,
                   content |-> tool_responses[i].tool_result]]] >>
      [] OTHER ->
           << [role |-> "tool",
               content |-> [i \in 1..Len(tool_responses) |->
                  [function_response |->
                     [name |-> tool_responses[i].name,
                      response |-> [result |-> tool_responses[i].tool_result]]]]] >>

\* A set_messages that stores whatever list it is given.
set_messages_unchecked(m, messages) ==
    IF messages.type # "list"
    THEN [raised |-> "TypeError: Messages must be a list of dictionaries", m |-> m]
    ELSE [raised |-> "",
          m |-> [m EXCEPT !.messages =
                   Some([i \in 1..Len(messages.list) |->
                           IF messages.list[i].type = "dict"
                           THEN messages.list[i].dict
                           ELSE [text |-> messages.list[i].str]])]]

\* Model.set_messages (Model.py 30-50): a non-list raises TypeError, an entry
\* that is no dict or lacks "role" or "content" raises ValueError, and only
\* then is the list stored.
set_messages(m, messages) ==
    IF messages.type # "list"
    THEN [raised |-> "TypeError: Messages must be a list of dictionaries", m |-> m]
    ELSE IF \E i \in 1..Len(messages.list) :
               \/ messages.list[i].type # "dict"
               \/ "role" \notin DOMAIN messages.list[i].dict
               \/ "content" \notin DOMAIN messages.list[i].dict
    THEN [raised |-> "ValueError: Each message must be a dictionary with 'role' and 'content' keys",
          m |-> m]
    ELSE [raised |-> "",
          m |-> [m EXCEPT !.messages =
                   Some([i \in 1..Len(messages.list) |-> messages.list[i].dict])]]

\* The adapter state of one agent: m.messages (None or the list that
\* Model.messages serialises) and m.instruction (the system instruction the
\* Anthropic and GenAI adapters keep outside the list).
\* Model.set_system_message of each vendor.
set_system_message(v, m, message) ==
    IF v = "openai"
    THEN [m EXCEPT !.messages = Some(<< [role |-> "system", content |-> message] >>)]
    ELSE [m EXCEPT !.instruction = message]

\* A set_user_message that starts the list anew instead of appending.
set_user_message_replacing(v, m, message) ==
    [m EXCEPT !.messages = Some(<< [role |-> "user", content |-> message] >>)]

\* Model.set_user_message with a string message.
set_user_message(v, m, message) ==
    LET current_messages == IF m.messages = None THEN <<>> ELSE Get(m.messages)
    IN [m EXCEPT !.messages =
          Some(Append(current_messages, [role |-> "user", content |-> message]))]

\* Model.set_tools: the vendor tool list stored under kwargs["tools"],
\* one schema per tool, in order.
set_tools(v, m, tools) ==
    [m EXCEPT !.kwargs_tools = [i \in 1..Len(tools) |-> tools[i].name]]

\* ------------------------------------------------------------------ tools
\* str(value) of a tool's return value: an int prints in decimal, a str is
\* itself.
python_str(outcome) ==
    IF outcome.type = "int" THEN ToString(outcome.int) ELSE outcome.str

Returned(n) ==
    [type |-> "int", int |-> n, str |-> "", agent |-> "", instruction |-> None]
ReturnedText(t, instr) ==
    [type |-> "str", int |-> 0, str |-> t, agent |-> "", instruction |-> instr]
ReturnedAgent(b, instr) ==
    [type |-> "agent", int |-> 0, str |-> "", agent |-> b, instruction |-> instr]
Raised(msg, instr) ==
    [type |-> "raise", int |-> 0, str |-> msg, agent |-> "", instruction |-> instr]

\* tool(**arguments) for the function tools of the test doubles.
call_function(tool, arguments) ==
    CASE tool.impl = "add" -> Returned(arguments.a + arguments.b)
      [] tool.impl = "mul" -> Returned(arguments.a * arguments.b)
      [] tool.impl = "div" ->
           IF arguments.b = 0
           THEN Raised("integer division or modulo by zero", None)
           ELSE Returned(arguments.a \div arguments.b)
      [] tool.impl = "to_b" -> ReturnedAgent("B1", None)
      [] OTHER -> ReturnedAgent("A2", None)

\* replace_placeholder on the template "Use: {result}".
replace_placeholder(result) ==
    ReturnToPrefix \o result

\* Agent.set_instruction: stores the instruction, then walks
\* self.model.messages when it is truthy.  Model.messages is the JSON text of
\* the list, so the walk visits characters and message.get raises
\* AttributeError on the first one.
set_instruction_raises(messages) ==
    messages # None

\* Container.run: the process outcome proc is the environment's; with
\* return_to the output is substituted into the instruction template, the
\* target agent's instruction is set and the target agent is returned.
\* The outcome carries the instruction written to the target, if any.
container_run(tool, arguments, proc, target_messages) ==
    IF ~proc.ok
    THEN Raised("Error running container: " \o proc.out, None)
    ELSE IF tool.impl = "return_to_b"
         THEN IF set_instruction_raises(target_messages)
              THEN Raised("'str' object has no attribute 'get'",
                          Some(replace_placeholder(proc.out)))
              ELSE ReturnedAgent(ReturnToAgent, Some(replace_placeholder(proc.out)))
         ELSE ReturnedText(proc.out, None)

\* ----------------------------------------------------------- AgentManager
\* A lookup that falls back to the first agent when the name is unknown.
get_agent_or_first(registry, name) ==
    IF \E i \in 1..Len(registry) : AgentName(registry[i]) = name
    THEN CHOOSE i \in 1..Len(registry) :
            /\ AgentName(registry[i]) = name
            /\ \A j \in 1..(i - 1) : AgentName(registry[j]) # name
    ELSE IF registry = <<>> THEN 0 ELSE 1

\* AgentManager.get_agent: index of the first agent with that name, 0 if none.
get_agent(registry, name) ==
    IF \E i \in 1..Len(registry) : AgentName(registry[i]) = name
    THEN CHOOSE i \in 1..Len(registry) :
            /\ AgentName(registry[i]) = name
            /\ \A j \in 1..(i - 1) : AgentName(registry[j]) # name
    ELSE 0

\* add_agent without the lookup by name.
add_agent_unchecked(registry, a) ==
    Append(registry, a)

\* AgentManager.add_agent
add_agent(registry, a) ==
    IF get_agent(registry, AgentName(a)) = 0
    THEN Append(registry, a)
    ELSE registry

\* A check for None only, which takes an empty list for tool calls.
has_tool_calls_not_none(response) ==
    response.tool_calls # None

\* response.get("tool_calls") is truthy: neither None nor an empty list.
has_tool_calls(response) ==
    /\ response.tool_calls # None
    /\ Get(response.tool_calls) # <<>>

\* Parsing without the except clause's skip: a string that does not parse
\* is passed on as if it had.
parse_arguments_unchecked(arguments) ==
    IF arguments.type = "str"
    THEN [ok |-> TRUE, val |-> json_loads(arguments.str).val]
    ELSE [ok |-> TRUE, val |-> arguments.dict]

\* Lines 104-118: arguments are parsed when they are a string.
parse_arguments(arguments) ==
    IF arguments.type = "str"
    THEN json_loads(arguments.str)
    ELSE [ok |-> TRUE, val |-> arguments.dict]

\* The lookup taking the last tool whose name matches.
find_tool_last(agent_tools, function_name) ==
    IF \E k \in 1..Len(agent_tools) : agent_tools[k].name = function_name
    THEN CHOOSE k \in 1..Len(agent_tools) :
            /\ agent_tools[k].name = function_name
            /\ \A j \in (k + 1)..Len(agent_tools) :
                  agent_tools[j].name # function_name
    ELSE 0

\* Lines 122-128, 156: the first tool whose name matches, 0 if none.
find_tool(agent_tools, function_name) ==
    IF \E k \in 1..Len(agent_tools) : agent_tools[k].name = function_name
    THEN CHOOSE k \in 1..Len(agent_tools) :
            /\ agent_tools[k].name = function_name
            /\ \A j \in 1..(k - 1) : agent_tools[j].name # function_name
    ELSE 0

\* Lines 129-182: invoke the matching tool; an exception it raises is caught
\* and becomes an error string.
invoke_tool(tool, arguments, proc, target_messages) ==
    IF tool.kind = "function"
    THEN call_function(tool, arguments)
    ELSE container_run(tool, arguments, proc, target_messages)

ToolResponse(id, tool_result, name) ==
    [id |-> id, tool_result |-> tool_result, name |-> name]

\* No tool was invoked for the call.
NotInvoked ==
    [type |-> "none", int |-> 0, str |-> "", agent |-> "", instruction |-> None]

\* The invalid-arguments response without the id of the call.
invalid_json_response_anonymous(output) ==
    ToolResponse("", "Error: Invalid JSON in arguments", output.name)

\* Lines 110-118: the response for arguments that do not parse.
invalid_json_response(output) ==
    ToolResponse(output.id, "Error: Invalid JSON in arguments", output.name)

\* The not-found response with the tool's name left out of the text and of
\* the response.
not_found_response_unnamed(output) ==
    ToolResponse(output.id, "Error: Tool not found", "")

\* Lines 184-191: the response when no tool of the agent matched.
not_found_response(output) ==
    ToolResponse(output.id, "Error: Tool '" \o output.name \o "' not found",
                 output.name)

\* handle_outcome without the isinstance(tool_result, Agent) early return:
\* the Agent is stringified like any other value and the loop goes on.
handle_outcome_no_early_return(output, k, outcome) ==
    CASE outcome.type = "raise" ->
           [kind |-> "response", invoked |-> k, outcome |-> outcome,
            response |-> ToolResponse(output.id,
                            "Error executing tool: " \o outcome.str, output.name)]
      [] OTHER ->
           [kind |-> "response", invoked |-> k, outcome |-> outcome,
            response |-> ToolResponse(output.id, python_str(outcome), output.name)]

\* handle_outcome without the except clauses: the tool's exception leaves
\* _process_tool_calls.
handle_outcome_uncaught(output, k, outcome) ==
    CASE outcome.type = "agent" ->
           [kind |-> "agent", invoked |-> k, outcome |-> outcome,
            response |-> ToolResponse(output.id, "", output.name)]
      [] outcome.type = "raise" ->
           [kind |-> "raise", invoked |-> k, outcome |-> outcome,
            response |-> ToolResponse(output.id, "", output.name)]
      [] OTHER ->
           [kind |-> "response", invoked |-> k, outcome |-> outcome,
            response |-> ToolResponse(output.id, python_str(outcome), output.name)]

\* Lines 129-154 and 157-182, after the tool was invoked: an Agent ends
\* _process_tool_calls with [{"agent": ...}]; an exception is caught and
\* becomes an error string; any other value is stringified.
\* kind "response": a tool response is appended; kind "agent": early
\* return; kind "raise": the exception leaves _process_tool_calls.
handle_outcome(output, k, outcome) ==
    CASE outcome.type = "agent" ->
           [kind |-> "agent", invoked |-> k, outcome |-> outcome,
            response |-> ToolResponse(output.id, "", output.name)]
      [] outcome.type = "raise" ->
           [kind |-> "response", invoked |-> k, outcome |-> outcome,
            response |-> ToolResponse(output.id,
                            "Error executing tool: " \o outcome.str, output.name)]
      [] OTHER ->
           [kind |-> "response", invoked |-> k, outcome |-> outcome,
            response |-> ToolResponse(output.id, python_str(outcome), output.name)]

\* One iteration of the loop of _process_tool_calls (lines 100-191).
\* invoked is the index of the tool that was called (0: none) and outcome
\* what that tool did.
process_tool_call(v, agent_tools, tool_call, proc, target_messages) ==
    LET output  == get_keys_in_tool_output(v, tool_call)
        parsed  == parse_arguments(output.arguments)
        k       == find_tool(agent_tools, output.name)
        outcome == invoke_tool(agent_tools[k], parsed.val, proc, target_messages)
    IN IF ~parsed.ok
       THEN [kind |-> "response", invoked |-> 0, outcome |-> NotInvoked,
             response |-> invalid_json_response(output)]
       ELSE IF k = 0
       THEN [kind |-> "response", invoked |-> 0, outcome |-> NotInvoked,
             response |-> not_found_response(output)]
       ELSE handle_outcome(output, k, outcome)

\* AgentManager.initialize_user_input on the agent found for the name:
\* system message from the instruction, tools re-propagated, user message
\* when the input is not None.
initialize_user_input(v, m, agent_instruction, agent_tools, user_input) ==
    LET m1 == set_system_message(v, m, agent_instruction)
        m2 == set_tools(v, m1, agent_tools)
    IN IF user_input # None THEN set_user_message(v, m2, Get(user_input)) ELSE m2

\* A _prepare_final_messages that appends the tool message(s) to the
\* history stored on the agent instead of to current_messages.
prepare_final_messages_stored(v, m, current_messages, tool_responses) ==
    [m EXCEPT !.messages = Some(Get(m.messages) \o get_tool_message(v, tool_responses))]

\* AgentManager._prepare_final_messages: the tool message(s) are appended
\* to current_messages, which is then stored on the agent.
prepare_final_messages(v, m, current_messages, tool_responses) ==
    [m EXCEPT !.messages = Some(current_messages \o get_tool_message(v, tool_responses))]

\* ------------------------------------------------------------------ state
VARIABLES
    vendor,            \* the adapter class of every agent's model
    agents,            \* AgentManager.agents, the registry
    instruction,       \* Agent.instruction of each agent object
    tools,             \* Agent.tools of each agent object
    model,             \* adapter state of each agent object
    pc,                \* position of the running run_agent call
    name,              \* run_agent's name argument (innermost call)
    agent,             \* the agent initialize_user_input returned
    user_input,        \* run_agent's user_input argument (innermost call)
    response,          \* the response run_agent is working on
    current_messages,  \* run_agent's current_messages
    tool_calls,        \* the batch being dispatched
    idx,               \* position of the loop of _process_tool_calls
    tool_responses,    \* _process_tool_calls' tool_responses
    result,            \* what run_agent returned to the caller, if it did
    error,             \* the exception that left run_agent, if one did
    origInput,         \* user_input of the caller's run_agent call
    enteredVia,        \* how the innermost run_agent call was made
    enteredInput,      \* the user_input it was given
    firstResponse,     \* first model response of the caller's run
    lastSeen,          \* history the latest model call was made with
    undispatched,      \* latest model response whose calls await dispatch
    modelCalls,        \* model calls made during the caller's run
    executed,          \* tools invoked during the caller's run, in order
    dispatched,        \* the calls of this batch taken up by the dispatch loop
    totalCalls,        \* model calls made in the behaviour
    requested,         \* tool calls requested by the model in the behaviour
    mode,              \* "batch": run_agent is running; "stream": run_agent_stream
    yielded,           \* what run_agent_stream has yielded to the caller, in order
    streams,           \* streaming model calls of the caller's run, in order
    freshAtEntry,      \* the agent had no history when the innermost call was entered
    thrown,            \* the exception a model call of the caller's run raised
    lastCall,          \* the latest call a caller made on an Agent or Model directly
    workflow,          \* the Workflow: its chain of steps and its results
    current_step,      \* run_workflow's current_step, as a position of the chain
    current_input,     \* run_workflow's current_input
    wfRan,             \* the steps run_workflow has executed, in order
    wfReturned,        \* what run_workflow returned to the caller, if it did
    threads,           \* the run_agent call of each caller thread: its locals
    final_tool_calls,  \* OpenAi.generate_stream_response: the calls by index
    fragments,         \* the tool-call deltas the stream has delivered, in order
    launches,          \* the keyword arguments of every client.containers.run call
    lastRun,           \* the latest Container.run call and how it ended
    adders,            \* the add_agent call of each registering thread
    callbacks          \* the callbacks stream_workflow has called, in order

frame ==
    <<pc, name, agent, user_input, response, current_messages, tool_calls,
      idx, tool_responses, result, error>>
ghost ==
    <<origInput, enteredVia, enteredInput, firstResponse, lastSeen,
      undispatched, modelCalls, executed, dispatched, totalCalls, requested>>
streamv ==
    <<mode, yielded, streams, freshAtEntry, thrown>>
wfv ==
    <<workflow, current_step, current_input, wfRan, wfReturned>>
deltav ==
    <<final_tool_calls, fragments>>
contv ==
    <<launches, lastRun>>
regv ==
    <<adders>>
cbv ==
    <<callbacks>>
morev ==
    <<deltav, contv, regv, cbv>>
extv ==
    <<lastCall, wfv, threads, morev>>
corev ==
    <<vendor, agents, instruction, tools, model, frame, ghost, streamv,
      lastCall, wfv, threads>>
vars ==
    <<vendor, agents, instruction, tools, model, frame, ghost, streamv, extv>>

NoResponse ==
    [content |-> "", tool_calls |-> None]
NoCall ==
    [op |-> "", agent |-> "", arg |-> None]
\* Caller threads, the name each passes to run_agent, and a thread that has
\* not called yet.
Threads ==
    {"T1", "T2"}
ThreadName(t) ==
    IF t = "T1" THEN "A" ELSE "B"
IdleThread ==
    [pc |-> "idle", agent |-> "", current_messages |-> <<>>, tool_calls |-> <<>>,
     idx |-> 1, tool_responses |-> <<>>, result |-> None,
     m0 |-> None, responses |-> <<>>, procs |-> <<>>, overlapped |-> FALSE]
\* Containers by their environment keyword: none given (the default {}),
\* the list of {name, type, description} entries the tool schema is built
\* from, and a mapping of names to values.
NoEnvironment ==
    [type |-> "dict", dict |-> [k \in {} |-> ""]]
DeclaredEnvironment ==
    [type |-> "list",
     list |-> << [name |-> "CODE", type |-> "string",
                  description |-> "Python code to execute"] >>]
MappedEnvironment ==
    [type |-> "dict", dict |-> [k \in {"CODE", "MODE"} |-> "preset"]]
ContainerEnvironments ==
    {NoEnvironment, DeclaredEnvironment, MappedEnvironment}
\* Arguments a caller passes to Container.run.
RunArguments ==
    { [k \in {} |-> ""],
      [k \in {"CODE"} |-> "print(1)"],
      [k \in {"CODE", "EXTRA"} |-> "x"] }
\* What client.containers.run does: the output bytes, or a DockerException.
RunOutcomes ==
    {[ok |-> TRUE, out |-> [bytes |-> "42"]], [ok |-> FALSE, out |-> [str |-> "exit 1"]]}
NoRun ==
    [environment |-> NoEnvironment, arguments |-> [k \in {} |-> ""],
     launched |-> 0, returned |-> None, raised |-> ""]
\* The indices and argument fragments of the tool-call deltas of a stream.
DeltaIndices ==
    {0, 1}
DeltaFragments ==
    {"", "{\"a\": 2, ", "\"b\": 3}"}
\* A thread that is not inside add_agent.
NotAdding ==
    [pc |-> "idle", agent |-> "", existing |-> 0]
\* A mapping without entries, as Workflow.results starts.
NoResults ==
    [n \in {} |-> NoResponse]

\* The state after construction: an empty registry, agents built with their
\* instruction and tools, models with messages = None.
Init ==
    /\ vendor \in Vendors
    /\ agents = <<>>
    /\ instruction = [a \in AgentObjs |-> InitialInstruction(a)]
    /\ tools = [a \in AgentObjs |-> InitialTools(a)]
    /\ model = [a \in AgentObjs |->
                  [messages |-> None, instruction |-> "", kwargs_tools |-> <<>>]]
    /\ pc = "idle"
    /\ name = ""
    /\ agent = ""
    /\ user_input = None
    /\ response = NoResponse
    /\ current_messages = <<>>
    /\ tool_calls = <<>>
    /\ idx = 1
    /\ tool_responses = <<>>
    /\ result = None
    /\ error = ""
    /\ origInput = None
    /\ enteredVia = ""
    /\ enteredInput = None
    /\ firstResponse = None
    /\ lastSeen = None
    /\ undispatched = None
    /\ modelCalls = 0
    /\ executed = <<>>
    /\ dispatched = <<>>
    /\ totalCalls = 0
    /\ requested = 0
    /\ mode = ""
    /\ yielded = <<>>
    /\ streams = <<>>
    /\ freshAtEntry = FALSE
    /\ thrown = ""
    /\ lastCall = NoCall
    /\ workflow = [steps |-> <<>>, results |-> NoResults]
    /\ current_step = 0
    /\ current_input = None
    /\ wfRan = <<>>
    /\ wfReturned = None
    /\ threads = [t \in Threads |-> IdleThread]
    /\ final_tool_calls = [i \in DeltaIndices |-> None]
    /\ fragments = <<>>
    /\ launches = <<>>
    /\ lastRun = NoRun
    /\ adders = [t \in Threads |-> NotAdding]
    /\ callbacks = <<>>

\* The caller registers an agent object (AgentManager.add_agent).
AddAgent(a) ==
    /\ pc = "idle"
    /\ agents' = add_agent(agents, a)
    /\ UNCHANGED <<extv, vendor, instruction, tools, model, frame, ghost, streamv>>

\* Entry of run_agent(n, inp): line 232, initialize_user_input.  An unknown
\* name raises ValueError; otherwise the agent is initialised and the call
\* stands before its first get_response.
Enter(n, inp, via) ==
    LET k == get_agent(agents, n)
        a == agents[k]
    IN /\ name' = n
       /\ user_input' = inp
       /\ enteredVia' = via
       /\ enteredInput' = inp
       /\ IF k = 0
          THEN /\ pc' = "raised"
               /\ error' = "ValueError: No agent found with name: " \o n
               /\ freshAtEntry' = FALSE
               /\ UNCHANGED <<agent, model>>
          ELSE /\ pc' = "get_response"
               /\ agent' = a
               /\ freshAtEntry' = (model[a].messages = None)
               /\ model' = [model EXCEPT ![a] =
                     initialize_user_input(vendor, model[a], instruction[a],
                                           tools[a], inp)]
               /\ error' = ""

\* The caller calls run_agent(n, inp).
RunAgent(n, inp) ==
    /\ pc = "idle"
    /\ Enter(n, inp, "caller")
    /\ origInput' = inp
    /\ mode' = "batch"
    /\ UNCHANGED <<yielded, streams, thrown>>
    /\ UNCHANGED <<extv, vendor, agents, instruction, tools, response,
                   current_messages, tool_calls, idx, tool_responses, result,
                   firstResponse, lastSeen, undispatched, modelCalls, executed,
                   dispatched, totalCalls, requested>>

\* Agent.get_response with messages still None raises ValueError.
GetResponseUnset ==
    /\ pc = "get_response"
    /\ model[agent].messages = None
    /\ pc' = "raised"
    /\ error' = "ValueError: Messages must be set before generating a response"
    /\ UNCHANGED <<extv, vendor, agents, instruction, tools, model, name, agent,
                   user_input, response, current_messages, tool_calls, idx,
                   tool_responses, result, ghost, streamv>>

\* The model calls a behaviour may make: stream_workflow, which runs every
\* step twice, has a budget of its own.
CallBudget ==
    IF callbacks # <<>> THEN MaxWorkflowCalls ELSE MaxModelCalls

\* Bookkeeping of a model call that returned r.
ModelCalled(r) ==
    /\ totalCalls < CallBudget
    /\ totalCalls' = totalCalls + 1
    /\ modelCalls' = modelCalls + 1
    /\ requested' = requested + (IF has_tool_calls(r) THEN Len(Get(r.tool_calls)) ELSE 0)
    /\ lastSeen' = model[agent].messages
    /\ firstResponse' = IF modelCalls = 0 THEN Some(r) ELSE firstResponse
    /\ undispatched' = IF has_tool_calls(r) THEN Some(r) ELSE undispatched

\* Lines 233-248: the first response of a run_agent call.  Without tool
\* calls it is returned; with tool calls the assistant message is appended
\* to current_messages and the dispatch loop starts.
GetResponseReturned(r) ==
    /\ ModelCalled(r)
    /\ response' = r
    /\ IF ~has_tool_calls(r)
       THEN /\ pc' = "returned"
            /\ result' = Some(r)
            /\ UNCHANGED <<current_messages, tool_calls, idx, tool_responses,
                           dispatched>>
       ELSE /\ pc' = "process_tool_calls"
            /\ tool_calls' = Get(r.tool_calls)
            /\ current_messages' =
                  Get(model[agent].messages) \o get_assistant_message(vendor, r)
            /\ idx' = 1
            /\ tool_responses' = <<>>
            /\ dispatched' = <<>>
            /\ UNCHANGED result
    /\ UNCHANGED <<extv, vendor, agents, instruction, tools, model, name, agent,
                   user_input, error, origInput, enteredVia, enteredInput,
                   executed, streamv>>

GetResponse ==
    /\ pc = "get_response"
    /\ model[agent].messages # None
    /\ \E r \in ModelResponses(agent, vendor, MaxToolCalls - requested) :
          GetResponseReturned(r)

\* One iteration of the loop of _process_tool_calls: the tool call at idx
\* is canonicalised, parsed, matched and executed.
ProcessToolCall(proc) ==
    /\ pc = "process_tool_calls"
    /\ idx <= Len(tool_calls)
    /\ LET step == process_tool_call(vendor, tools[agent], tool_calls[idx], proc,
                                     model[ReturnToAgent].messages)
       IN /\ dispatched' = Append(dispatched,
                [id |-> step.response.id, name |-> step.response.name,
                 invoked |-> step.invoked, did |-> step.outcome.type,
                 message |-> step.outcome.str])
          /\ undispatched' = None
          /\ executed' = IF step.invoked = 0 THEN executed
                         ELSE Append(executed, [id |-> step.response.id,
                                                agent |-> agent,
                                                tool |-> step.invoked])
          /\ instruction' = IF step.outcome.instruction = None THEN instruction
                            ELSE [instruction EXCEPT ![ReturnToAgent] =
                                     Get(step.outcome.instruction)]
          /\ CASE step.kind = "agent" ->
                    /\ tool_responses' = << [agent |-> step.outcome.agent] >>
                    /\ pc' = "chain"
                    /\ UNCHANGED <<idx, error>>
               [] step.kind = "raise" ->
                    /\ pc' = "raised"
                    /\ error' = step.outcome.str
                    /\ UNCHANGED <<idx, tool_responses>>
               [] OTHER ->
                    /\ tool_responses' = Append(tool_responses, step.response)
                    /\ idx' = idx + 1
                    /\ UNCHANGED <<pc, error>>
    /\ UNCHANGED <<extv, vendor, agents, tools, model, name, agent, user_input,
                   response, current_messages, tool_calls, result,
                   origInput, enteredVia, enteredInput, firstResponse, lastSeen,
                   modelCalls, totalCalls, requested, streamv>>

\* A handoff that first stores the abandoned turn's messages on the agent
\* that is left.
ChainToAgentPersisting ==
    /\ pc = "chain"
    /\ mode = "batch"
    /\ LET new_agent == tool_responses[1].agent
           registry  == IF get_agent(agents, AgentName(new_agent)) = 0
                        THEN add_agent(agents, new_agent)
                        ELSE agents
           k == get_agent(registry, AgentName(new_agent))
           a == registry[k]
       IN /\ agents' = registry
          /\ name' = AgentName(new_agent)
          /\ enteredVia' = "handoff"
          /\ enteredInput' = user_input
          /\ pc' = "get_response"
          /\ agent' = a
          /\ freshAtEntry' = (model[a].messages = None)
          /\ model' = [model EXCEPT
                ![agent] = [@ EXCEPT !.messages = Some(current_messages)],
                ![a] = initialize_user_input(vendor, model[a], instruction[a],
                                             tools[a], user_input)]
    /\ UNCHANGED <<extv, vendor, instruction, tools, user_input, response,
                   current_messages, tool_calls, idx, tool_responses, result,
                   error, origInput, firstResponse, lastSeen, undispatched,
                   modelCalls, executed, dispatched, totalCalls, requested,
                   mode, yielded, streams, thrown>>

\* A handoff that runs the Agent object the tool returned, whichever agent
\* the registry holds under its name.
ChainToAgentReturned ==
    /\ pc = "chain"
    /\ mode = "batch"
    /\ LET new_agent == tool_responses[1].agent
           registry  == IF get_agent(agents, AgentName(new_agent)) = 0
                        THEN add_agent(agents, new_agent)
                        ELSE agents
           a == new_agent
       IN /\ agents' = registry
          /\ name' = AgentName(new_agent)
          /\ enteredVia' = "handoff"
          /\ enteredInput' = user_input
          /\ pc' = "get_response"
          /\ agent' = a
          /\ freshAtEntry' = (model[a].messages = None)
          /\ model' = [model EXCEPT ![a] =
                initialize_user_input(vendor, model[a], instruction[a],
                                      tools[a], user_input)]
    /\ UNCHANGED <<extv, vendor, instruction, tools, user_input, response,
                   current_messages, tool_calls, idx, tool_responses, result,
                   error, origInput, firstResponse, lastSeen, undispatched,
                   modelCalls, executed, dispatched, totalCalls, requested,
                   mode, yielded, streams, thrown>>

\* Lines 253-259: a tool returned an Agent; it is registered when its name
\* is unknown and run_agent is called for its name with user_input.
ChainToAgent ==
    /\ pc = "chain"
    /\ mode = "batch"
    /\ LET new_agent == tool_responses[1].agent
           registry  == IF get_agent(agents, AgentName(new_agent)) = 0
                        THEN add_agent(agents, new_agent)
                        ELSE agents
           k == get_agent(registry, AgentName(new_agent))
           a == registry[k]
       IN /\ agents' = registry
          /\ name' = AgentName(new_agent)
          /\ enteredVia' = "handoff"
          /\ enteredInput' = user_input
          /\ pc' = "get_response"
          /\ agent' = a
          /\ freshAtEntry' = (model[a].messages = None)
          /\ model' = [model EXCEPT ![a] =
                initialize_user_input(vendor, model[a], instruction[a],
                                      tools[a], user_input)]
    /\ UNCHANGED <<extv, vendor, instruction, tools, user_input, response,
                   current_messages, tool_calls, idx, tool_responses, result,
                   error, origInput, firstResponse, lastSeen, undispatched,
                   modelCalls, executed, dispatched, totalCalls, requested,
                   mode, yielded, streams, thrown>>

\* A run_agent that goes on to the follow-up call only when no tool has
\* answered.
PrepareFinalMessagesBlocked ==
    /\ pc = "process_tool_calls"
    /\ idx > Len(tool_calls)
    /\ tool_responses = <<>>
    /\ model' = [model EXCEPT ![agent] =
          prepare_final_messages(vendor, model[agent], current_messages,
                                 tool_responses)]
    /\ pc' = "final_response"
    /\ UNCHANGED <<extv, vendor, agents, instruction, tools, name, agent, user_input,
                   response, current_messages, tool_calls, idx, tool_responses,
                   result, error, ghost, streamv>>

\* Lines 261-262: the loop ended without handoff; _prepare_final_messages.
PrepareFinalMessages ==
    /\ pc = "process_tool_calls"
    /\ idx > Len(tool_calls)
    /\ model' = [model EXCEPT ![agent] =
          prepare_final_messages(vendor, model[agent], current_messages,
                                 tool_responses)]
    /\ pc' = "final_response"
    /\ UNCHANGED <<extv, vendor, agents, instruction, tools, name, agent, user_input,
                   response, current_messages, tool_calls, idx, tool_responses,
                   result, error, ghost, streamv>>

\* A follow-up response that is returned whatever it carries.
FinalResponseReturnedAsIs(r) ==
    /\ ModelCalled(r)
    /\ pc' = "returned"
    /\ result' = Some(r)
    /\ UNCHANGED <<name, user_input, enteredVia, enteredInput, model,
                   agent, freshAtEntry>>
    /\ UNCHANGED <<extv, vendor, agents, instruction, tools, response,
                   current_messages, tool_calls, idx, tool_responses, error,
                   origInput, executed, dispatched, mode, yielded, streams, thrown>>

\* Lines 263-270: the follow-up response.  With tool calls run_agent calls
\* itself with the same name and None; otherwise the response is returned.
FinalResponseReturned(r) ==
    /\ ModelCalled(r)
    /\ IF has_tool_calls(r)
       THEN /\ name' = name
            /\ user_input' = None
            /\ enteredVia' = "nested"
            /\ enteredInput' = None
            /\ pc' = "get_response"
            /\ freshAtEntry' = (model[agent].messages = None)
            /\ model' = [model EXCEPT ![agent] =
                  initialize_user_input(vendor, model[agent], instruction[agent],
                                        tools[agent], None)]
            /\ UNCHANGED <<result, agent>>
       ELSE /\ pc' = "returned"
            /\ result' = Some(r)
            /\ UNCHANGED <<name, user_input, enteredVia, enteredInput, model,
                           agent, freshAtEntry>>
    /\ UNCHANGED <<extv, vendor, agents, instruction, tools, response,
                   current_messages, tool_calls, idx, tool_responses, error,
                   origInput, executed, dispatched, mode, yielded, streams, thrown>>

FinalResponse ==
    /\ pc = "final_response"
    /\ mode = "batch"
    /\ \E r \in ModelResponses(agent, vendor, MaxToolCalls - requested) :
          FinalResponseReturned(r)

\* Lines 233-237 and 263-270 once the behaviour's budget of model calls is
\* used up: the model still answers, without tool calls, and run_agent
\* returns the answer.
AnswerPlainAtCap ==
    /\ pc \in {"get_response", "final_response"}
    /\ mode = "batch"
    /\ model[agent].messages # None
    /\ totalCalls = MaxModelCalls
    /\ \E r \in PlainResponses(vendor) :
          /\ result' = Some(r)
          /\ response' = IF pc = "get_response" THEN r ELSE response
          /\ firstResponse' = IF modelCalls = 0 THEN Some(r) ELSE firstResponse
    /\ pc' = "returned"
    /\ modelCalls' = modelCalls + 1
    /\ lastSeen' = model[agent].messages
    /\ UNCHANGED <<extv, vendor, agents, instruction, tools, model, name, agent,
                   user_input, current_messages, tool_calls, idx, tool_responses,
                   error, origInput, enteredVia, enteredInput, undispatched,
                   executed, dispatched, totalCalls, requested, streamv>>

\* run_agent has returned or raised; control is back with the caller and
\* the locals of the call are gone.
Finish ==
    /\ pc \in {"returned", "raised"}
    /\ current_step = 0
    /\ pc' = "idle"
    /\ name' = ""
    /\ agent' = ""
    /\ user_input' = None
    /\ response' = NoResponse
    /\ current_messages' = <<>>
    /\ tool_calls' = <<>>
    /\ idx' = 1
    /\ tool_responses' = <<>>
    /\ result' = None
    /\ error' = ""
    /\ origInput' = None
    /\ enteredVia' = ""
    /\ enteredInput' = None
    /\ firstResponse' = None
    /\ lastSeen' = None
    /\ undispatched' = None
    /\ modelCalls' = 0
    /\ executed' = <<>>
    /\ dispatched' = <<>>
    /\ mode' = ""
    /\ yielded' = <<>>
    /\ streams' = <<>>
    /\ freshAtEntry' = FALSE
    /\ thrown' = ""
    /\ UNCHANGED <<extv, vendor, agents, instruction, tools, model, totalCalls,
                   requested>>

\* ------------------------------------------------------ run_agent_stream
\* Chunks of a streaming model call: {"tool_calls": [], "content": text}.
Chunk(text) ==
    [content |-> text, tool_calls |-> <<>>]
\* What generate_stream_response may yield: the chunks of one vendor stream.
StreamResponses ==
    { << Chunk("he") >>, << Chunk("he"), Chunk("llo") >> }

\* The shortcut test without the position: any agent without tools.
stream_shortcut_any_position(registry, agent_tools, n) ==
    agent_tools = <<>>

\* Line 291: the agent has no tools and sits at index 0 of the registry.
stream_shortcut(registry, agent_tools, n) ==
    agent_tools = <<>> /\ get_agent(registry, n) - 1 = 0

\* Line 288 of run_agent_stream(n, inp): initialize_user_input.
StreamEnter(n, inp, via) ==
    LET k == get_agent(agents, n)
        a == agents[k]
    IN /\ name' = n
       /\ user_input' = inp
       /\ enteredVia' = via
       /\ enteredInput' = inp
       /\ IF k = 0
          THEN /\ pc' = "raised"
               /\ error' = "ValueError: No agent found with name: " \o n
               /\ freshAtEntry' = FALSE
               /\ UNCHANGED <<agent, model>>
          ELSE /\ pc' = "stream_entry"
               /\ agent' = a
               /\ freshAtEntry' = (model[a].messages = None)
               /\ model' = [model EXCEPT ![a] =
                     initialize_user_input(vendor, model[a], instruction[a],
                                           tools[a], inp)]
               /\ error' = ""

\* The caller iterates run_agent_stream(n, inp).
RunAgentStream(n, inp) ==
    /\ pc = "idle"
    /\ StreamEnter(n, inp, "caller")
    /\ origInput' = inp
    /\ mode' = "stream"
    /\ UNCHANGED <<extv, vendor, agents, instruction, tools, response,
                   current_messages, tool_calls, idx, tool_responses, result,
                   firstResponse, lastSeen, undispatched, modelCalls, executed,
                   dispatched, totalCalls, requested, yielded, streams,
                   thrown>>

\* Agent.get_response / get_stream_response with messages still None raises
\* ValueError (lines 292 and 296 reach it alike).
StreamUnset ==
    /\ pc = "stream_entry"
    /\ model[agent].messages = None
    /\ pc' = "raised"
    /\ error' = "ValueError: Messages must be set before generating a response"
    /\ UNCHANGED <<extv, vendor, agents, instruction, tools, model, name, agent,
                   user_input, response, current_messages, tool_calls, idx,
                   tool_responses, result, ghost, streamv>>

\* A streaming call whose first chunk is swallowed on the way to the caller.
StreamCalledDropsFirst(chunks) ==
    /\ totalCalls < CallBudget
    /\ totalCalls' = totalCalls + 1
    /\ lastSeen' = model[agent].messages
    /\ streams' = Append(streams, [agent |-> agent, chunks |-> chunks])
    /\ yielded' = yielded \o Tail(chunks)

\* Bookkeeping of a streaming model call that yielded chunks.
StreamCalled(chunks) ==
    /\ totalCalls < CallBudget
    /\ totalCalls' = totalCalls + 1
    /\ lastSeen' = model[agent].messages
    /\ streams' = Append(streams, [agent |-> agent, chunks |-> chunks])
    /\ yielded' = yielded \o chunks

\* Lines 291-293: the shortcut; the chunks of one streaming call are yielded.
StreamDirect ==
    /\ pc = "stream_entry"
    /\ model[agent].messages # None
    /\ stream_shortcut(agents, tools[agent], name)
    /\ \E chunks \in StreamResponses : StreamCalled(chunks)
    /\ pc' = "returned"
    /\ UNCHANGED <<extv, vendor, agents, instruction, tools, model, name, agent,
                   user_input, response, current_messages, tool_calls, idx,
                   tool_responses, result, error, origInput, enteredVia,
                   enteredInput, firstResponse, undispatched, modelCalls,
                   executed, dispatched, requested, mode, freshAtEntry, thrown>>

\* A detection step that, finding no tool calls, calls the model again in
\* streaming mode and yields that stream instead of the response it has.
StreamDetectRestreams(r) ==
    /\ ModelCalled(r)
    /\ response' = r
    /\ IF ~has_tool_calls(r)
       THEN /\ pc' = "returned"
            /\ \E chunks \in StreamResponses :
                  /\ yielded' = yielded \o chunks
                  /\ streams' = Append(streams, [agent |-> agent, chunks |-> chunks])
            /\ UNCHANGED <<current_messages, tool_calls, idx, tool_responses,
                           dispatched>>
       ELSE /\ pc' = "process_tool_calls"
            /\ tool_calls' = Get(r.tool_calls)
            /\ current_messages' =
                  Get(model[agent].messages) \o get_assistant_message(vendor, r)
            /\ idx' = 1
            /\ tool_responses' = <<>>
            /\ dispatched' = <<>>
            /\ UNCHANGED <<yielded, streams>>
    /\ UNCHANGED <<extv, vendor, agents, instruction, tools, model, name, agent,
                   user_input, result, error, origInput, enteredVia,
                   enteredInput, executed, mode, freshAtEntry, thrown>>

\* Lines 296-310: the non-streaming detection call.  Without tool calls the
\* response itself is yielded; with tool calls the assistant message is
\* appended to current_messages and the dispatch loop starts.
StreamDetectReturned(r) ==
    /\ ModelCalled(r)
    /\ response' = r
    /\ IF ~has_tool_calls(r)
       THEN /\ pc' = "returned"
            /\ yielded' = Append(yielded, r)
            /\ UNCHANGED <<current_messages, tool_calls, idx, tool_responses,
                           dispatched>>
       ELSE /\ pc' = "process_tool_calls"
            /\ tool_calls' = Get(r.tool_calls)
            /\ current_messages' =
                  Get(model[agent].messages) \o get_assistant_message(vendor, r)
            /\ idx' = 1
            /\ tool_responses' = <<>>
            /\ dispatched' = <<>>
            /\ UNCHANGED yielded
    /\ UNCHANGED <<extv, vendor, agents, instruction, tools, model, name, agent,
                   user_input, result, error, origInput, enteredVia,
                   enteredInput, executed, mode, streams, freshAtEntry,
                   thrown>>

StreamDetect ==
    /\ pc = "stream_entry"
    /\ model[agent].messages # None
    /\ ~stream_shortcut(agents, tools[agent], name)
    /\ \E r \in ModelResponses(agent, vendor, MaxToolCalls - requested) :
          StreamDetectReturned(r)

\* A streaming handoff that starts the returned agent without the input.
StreamChainWithoutInput ==
    /\ pc = "chain"
    /\ mode = "stream"
    /\ LET new_agent == tool_responses[1].agent
           registry  == IF get_agent(agents, AgentName(new_agent)) = 0
                        THEN add_agent(agents, new_agent)
                        ELSE agents
           k == get_agent(registry, AgentName(new_agent))
           a == registry[k]
       IN /\ agents' = registry
          /\ name' = AgentName(new_agent)
          /\ enteredVia' = "handoff"
          /\ enteredInput' = None
          /\ pc' = "stream_entry"
          /\ agent' = a
          /\ freshAtEntry' = (model[a].messages = None)
          /\ model' = [model EXCEPT ![a] =
                initialize_user_input(vendor, model[a], instruction[a],
                                      tools[a], None)]
    /\ UNCHANGED <<extv, vendor, instruction, tools, user_input, response,
                   current_messages, tool_calls, idx, tool_responses, result,
                   error, origInput, firstResponse, lastSeen, undispatched,
                   modelCalls, executed, dispatched, totalCalls, requested,
                   mode, yielded, streams, thrown>>

\* Lines 316-322: a tool returned an Agent; it is registered when its name
\* is unknown and run_agent_stream is iterated for its name with user_input.
StreamChainToAgent ==
    /\ pc = "chain"
    /\ mode = "stream"
    /\ LET new_agent == tool_responses[1].agent
           registry  == IF get_agent(agents, AgentName(new_agent)) = 0
                        THEN add_agent(agents, new_agent)
                        ELSE agents
           k == get_agent(registry, AgentName(new_agent))
           a == registry[k]
       IN /\ agents' = registry
          /\ name' = AgentName(new_agent)
          /\ enteredVia' = "handoff"
          /\ enteredInput' = user_input
          /\ pc' = "stream_entry"
          /\ agent' = a
          /\ freshAtEntry' = (model[a].messages = None)
          /\ model' = [model EXCEPT ![a] =
                initialize_user_input(vendor, model[a], instruction[a],
                                      tools[a], user_input)]
    /\ UNCHANGED <<extv, vendor, instruction, tools, user_input, response,
                   current_messages, tool_calls, idx, tool_responses, result,
                   error, origInput, firstResponse, lastSeen, undispatched,
                   modelCalls, executed, dispatched, totalCalls, requested,
                   mode, yielded, streams, thrown>>

\* The streamed follow-up of an agent with tools: text chunks, possibly
\* followed by a chunk that carries a tool call.
FollowUpStreams(a) ==
    StreamResponses
      \cup { << Chunk("he"), [content |-> "", tool_calls |-> <<c>>] >> :
               c \in RequestableCalls(a, vendor) }

\* A follow-up whose tool calls, when its last chunk carries some, are
\* dispatched like those of the detection call.
StreamFinalDispatching ==
    /\ pc = "final_response"
    /\ mode = "stream"
    /\ \E chunks \in FollowUpStreams(agent) :
          /\ StreamCalled(chunks)
          /\ IF chunks[Len(chunks)].tool_calls = <<>>
             THEN /\ pc' = "returned"
                  /\ UNCHANGED <<current_messages, tool_calls, idx,
                                 tool_responses, dispatched>>
             ELSE /\ pc' = "process_tool_calls"
                  /\ tool_calls' = chunks[Len(chunks)].tool_calls
                  /\ current_messages' = Get(model[agent].messages)
                  /\ idx' = 1
                  /\ tool_responses' = <<>>
                  /\ dispatched' = <<>>
    /\ UNCHANGED <<extv, vendor, agents, instruction, tools, model, name, agent,
                   user_input, response, result, error, origInput, enteredVia,
                   enteredInput, firstResponse, undispatched, modelCalls,
                   executed, requested, mode, freshAtEntry, thrown>>

\* Line 326: after _prepare_final_messages the follow-up is streamed.
StreamFinal ==
    /\ pc = "final_response"
    /\ mode = "stream"
    /\ \E chunks \in FollowUpStreams(agent) : StreamCalled(chunks)
    /\ pc' = "returned"
    /\ UNCHANGED <<extv, vendor, agents, instruction, tools, model, name, agent,
                   user_input, response, current_messages, tool_calls, idx,
                   tool_responses, result, error, origInput, enteredVia,
                   enteredInput, firstResponse, undispatched, modelCalls,
                   executed, dispatched, requested, mode, freshAtEntry, thrown>>

\* ------------------------------------------------- failing model calls
\* The exception a vendor client raises when a request fails.
ModelError ==
    "APIError: request failed"

\* Bookkeeping of a model call that raised.
ModelFailed ==
    /\ model[agent].messages # None
    /\ totalCalls < CallBudget
    /\ totalCalls' = totalCalls + 1
    /\ lastSeen' = model[agent].messages
    /\ thrown' = ModelError

\* A failing get_response whose exception is caught inside the run, which
\* then stands before the same call again.
ModelRaisesRetried ==
    /\ \/ pc = "get_response" /\ mode = "batch"
       \/ pc = "final_response" /\ mode = "batch"
       \/ pc = "stream_entry" /\ ~stream_shortcut(agents, tools[agent], name)
    /\ ModelFailed
    /\ modelCalls' = modelCalls + 1
    /\ UNCHANGED <<extv, vendor, agents, instruction, tools, model, name, agent,
                   user_input, response, current_messages, tool_calls, idx,
                   tool_responses, result, error, pc, origInput, enteredVia,
                   enteredInput, firstResponse, undispatched, executed,
                   dispatched, requested, mode, yielded, streams, freshAtEntry>>

\* agent.get_response() raises (run_agent lines 233 and 263, run_agent_stream
\* line 296): no handler stands between the call and the caller.
ModelRaises ==
    /\ \/ pc = "get_response" /\ mode = "batch"
       \/ pc = "final_response" /\ mode = "batch"
       \/ pc = "stream_entry" /\ ~stream_shortcut(agents, tools[agent], name)
    /\ ModelFailed
    /\ modelCalls' = modelCalls + 1
    /\ pc' = "raised"
    /\ error' = ModelError
    /\ UNCHANGED <<extv, vendor, agents, instruction, tools, model, name, agent,
                   user_input, response, current_messages, tool_calls, idx,
                   tool_responses, result, origInput, enteredVia, enteredInput,
                   firstResponse, undispatched, executed, dispatched, requested,
                   mode, yielded, streams, freshAtEntry>>

\* agent.get_stream_response() raises (run_agent_stream lines 292 and 326),
\* at the request or after a first chunk was passed on.
StreamRaises ==
    /\ \/ pc = "final_response" /\ mode = "stream"
       \/ pc = "stream_entry" /\ stream_shortcut(agents, tools[agent], name)
    /\ ModelFailed
    /\ \E partial \in { <<>>, << Chunk("he") >> } :
          /\ streams' = Append(streams, [agent |-> agent, chunks |-> partial])
          /\ yielded' = yielded \o partial
    /\ pc' = "raised"
    /\ error' = ModelError
    /\ UNCHANGED <<extv, vendor, agents, instruction, tools, model, name, agent,
                   user_input, response, current_messages, tool_calls, idx,
                   tool_responses, result, origInput, enteredVia, enteredInput,
                   firstResponse, undispatched, modelCalls, executed,
                   dispatched, requested, mode, freshAtEntry>>

Next ==
    \/ \E a \in AgentObjs : AddAgent(a)
    \/ \E n \in CallerNames, inp \in CallerInputs : RunAgent(n, inp)
    \/ GetResponseUnset
    \/ GetResponse
    \/ \E proc \in ProcOutcomes : ProcessToolCall(proc)
    \/ ChainToAgent
    \/ PrepareFinalMessages
    \/ FinalResponse
    \/ ModelRaises
    \/ Finish

Spec ==
    Init /\ [][Next]_vars

\* run_agent with a model that always answers.  The steps of run_agent are
\* taken when they can be (the thread runs, every tool terminates); the
\* model answers without tool calls again and again.  The caller starts
\* runs while the behaviour's budget of model calls lasts.
StartRun(n, inp) ==
    /\ totalCalls < MaxModelCalls
    /\ RunAgent(n, inp)

NextRounds ==
    \/ \E a \in AgentObjs : AddAgent(a)
    \/ \E n \in CallerNames : StartRun(n, Some("hello"))
    \/ GetResponseUnset
    \/ GetResponse
    \/ \E proc \in ProcOutcomes : ProcessToolCall(proc)
    \/ ChainToAgent
    \/ PrepareFinalMessages
    \/ FinalResponse
    \/ AnswerPlainAtCap
    \/ Finish

PlainAnswer ==
    /\ GetResponse \/ FinalResponse \/ AnswerPlainAtCap
    /\ pc' = "returned"

SpecRounds ==
    /\ Init
    /\ [][NextRounds]_vars
    /\ WF_vars(GetResponseUnset)
    /\ WF_vars(\E proc \in ProcOutcomes : ProcessToolCall(proc))
    /\ WF_vars(ChainToAgent)
    /\ WF_vars(PrepareFinalMessages)
    /\ SF_vars(PlainAnswer)

\* ------------------------------------------------- the Agent's own methods
\* Texts a caller passes as system message or instruction.
InstructionTexts ==
    {"be brief", "be kind"}

\* The agent objects a caller works on directly.
DirectAgents ==
    {"A1", "B1"}

\* What a caller may pass to set_messages: conversation histories, the
\* empty list, and arguments that are no list of role/content dicts.
InstallableHistories ==
    { << [role |-> "user", content |-> "q1"],
         [role |-> "assistant", content |-> "a1"],
         [role |-> "user", content |-> "q2"] >>,
      << [role |-> "system", content |-> "old"],
         [role |-> "user", content |-> "q1"] >> }
\* A history as the argument of set_messages.
AsMessages(h) ==
    AsList([i \in 1..Len(h) |-> AsDict(h[i])])
SetMessagesArgs ==
    { AsMessages(h) : h \in InstallableHistories }
      \cup { AsList(<<>>),
             AsStr("not a list"),
             AsList(<< AsDict([invalid |-> "message"]) >>),
             AsList(<< AsDict([role |-> "user", content |-> "q1"]),
                       AsDict([role |-> "user"]) >>),
             AsList(<< AsStr("q1") >>) }

\* A direct call on agent a has returned or raised.
DirectCallDone(op, a, arg, raised) ==
    /\ lastCall' = [op |-> op, agent |-> a, arg |-> arg]
    /\ UNCHANGED <<wfv, threads, morev>>
    /\ agent' = a
    /\ pc' = IF raised = "" THEN "returned" ELSE "raised"
    /\ error' = raised

\* The caller calls agent.set_messages(messages).
SetMessages(a, messages) ==
    /\ pc = "idle"
    /\ model' = [model EXCEPT ![a] = set_messages(model[a], messages).m]
    /\ DirectCallDone("set_messages", a, Some(messages),
                      set_messages(model[a], messages).raised)
    /\ UNCHANGED <<vendor, agents, instruction, tools, name, user_input,
                   response, current_messages, tool_calls, idx, tool_responses,
                   result, ghost, streamv>>

\* The caller calls agent.clear_messages(): set_messages([]), then the
\* system message again when the instruction is not empty.
ClearMessages(a) ==
    /\ pc = "idle"
    /\ model' = [model EXCEPT ![a] =
          LET m == set_messages(model[a], AsList(<<>>)).m
          IN IF instruction[a] # ""
             THEN set_system_message(vendor, m, instruction[a])
             ELSE m]
    /\ DirectCallDone("clear_messages", a, None, "")
    /\ UNCHANGED <<vendor, agents, instruction, tools, name, user_input,
                   response, current_messages, tool_calls, idx, tool_responses,
                   result, ghost, streamv>>

\* The caller calls agent.set_system_message(text).
SetSystemMessage(a, text) ==
    /\ pc = "idle"
    /\ model' = [model EXCEPT ![a] = set_system_message(vendor, model[a], text)]
    /\ DirectCallDone("set_system_message", a, Some(text), "")
    /\ UNCHANGED <<vendor, agents, instruction, tools, name, user_input,
                   response, current_messages, tool_calls, idx, tool_responses,
                   result, ghost, streamv>>

\* The caller calls agent.set_user_message("hello").
SetUserMessage(a) ==
    /\ pc = "idle"
    /\ IF model[a].messages = None THEN TRUE
       ELSE Len(Get(model[a].messages)) < MaxMessages
    /\ model' = [model EXCEPT ![a] = set_user_message(vendor, model[a], "hello")]
    /\ DirectCallDone("set_user_message", a, Some("hello"), "")
    /\ UNCHANGED <<vendor, agents, instruction, tools, name, user_input,
                   response, current_messages, tool_calls, idx, tool_responses,
                   result, ghost, streamv>>

\* The caller calls agent.set_instruction(text): the instruction is stored
\* (line 61); when Model.messages is set the walk over it raises
\* AttributeError before set_system_message is reached, otherwise nothing
\* else happens.
SetInstruction(a, text) ==
    /\ pc = "idle"
    /\ instruction' = [instruction EXCEPT ![a] = text]
    /\ mode' = "set_instruction"
    /\ DirectCallDone("set_instruction", a, Some(text),
          IF set_instruction_raises(model[a].messages)
          THEN "AttributeError: 'str' object has no attribute 'get'"
          ELSE "")
    /\ UNCHANGED <<vendor, agents, tools, model, name, user_input, response,
                   current_messages, tool_calls, idx, tool_responses, result,
                   ghost, yielded, streams, freshAtEntry, thrown>>

\* ------------------------------------------------- tools of an agent
\* The agent whose tools the caller changes.
ToolSubjects ==
    {"A1"}
\* Tools a caller may add, names it may remove, lists it may set.
AddableTools ==
    {ToolDiv, ToolAdd}
RemovableNames ==
    {"add", "ghost"}
SettableTools ==
    { <<>>, <<ToolRunner>> }

\* Agent.add_tool (lines 133-142): appended, and re-propagated, only when
\* the tool is not in the list yet.
add_tool(agent_tools, tool) ==
    IF \E k \in 1..Len(agent_tools) : agent_tools[k] = tool
    THEN agent_tools
    ELSE Append(agent_tools, tool)

\* Agent.remove_tool (lines 144-163): the first tool of that name is popped.
remove_tool(agent_tools, tool_name) ==
    LET k == find_tool(agent_tools, tool_name)
    IN IF k = 0 THEN agent_tools
       ELSE [i \in 1..(Len(agent_tools) - 1) |->
               IF i < k THEN agent_tools[i] ELSE agent_tools[i + 1]]

\* The caller calls agent.set_tools(list).
SetTools(a, list) ==
    /\ pc = "idle"
    /\ tools' = [tools EXCEPT ![a] = list]
    /\ model' = [model EXCEPT ![a] = set_tools(vendor, model[a], list)]
    /\ DirectCallDone("set_tools", a, Some(list), "")
    /\ UNCHANGED <<vendor, agents, instruction, name, user_input, response,
                   current_messages, tool_calls, idx, tool_responses, result,
                   ghost, streamv>>

\* The caller calls agent.add_tool(tool).
AddTool(a, tool) ==
    /\ pc = "idle"
    /\ tools' = [tools EXCEPT ![a] = add_tool(tools[a], tool)]
    /\ model' = IF add_tool(tools[a], tool) = tools[a] THEN model
                ELSE [model EXCEPT ![a] =
                        set_tools(vendor, model[a], add_tool(tools[a], tool))]
    /\ DirectCallDone("add_tool", a, Some(tool), "")
    /\ UNCHANGED <<vendor, agents, instruction, name, user_input, response,
                   current_messages, tool_calls, idx, tool_responses, result,
                   ghost, streamv>>

\* The caller calls agent.remove_tool(tool_name).
RemoveTool(a, tool_name) ==
    /\ pc = "idle"
    /\ tools' = [tools EXCEPT ![a] = remove_tool(tools[a], tool_name)]
    /\ model' = IF find_tool(tools[a], tool_name) = 0 THEN model
                ELSE [model EXCEPT ![a] =
                        set_tools(vendor, model[a], remove_tool(tools[a], tool_name))]
    /\ DirectCallDone("remove_tool", a, Some(tool_name), "")
    /\ UNCHANGED <<vendor, agents, instruction, name, user_input, response,
                   current_messages, tool_calls, idx, tool_responses, result,
                   ghost, streamv>>

\* What the model may answer to a call made outside the manager.
DirectResponses(a) ==
    PlainResponses(vendor)
      \cup { ResponseWithCalls(vendor, b) :
                b \in Batches(RequestableCalls(a, vendor), 1) }

\* The caller calls agent.get_response() (lines 198-210): ValueError while
\* the history is None, else one model call whose response is returned.
GetResponseDirect(a) ==
    /\ pc = "idle"
    /\ IF model[a].messages = None
       THEN /\ DirectCallDone("get_response", a, None,
                   "ValueError: Messages must be set before generating a response")
            /\ UNCHANGED <<result, totalCalls, lastSeen>>
       ELSE /\ totalCalls < MaxModelCalls
            /\ totalCalls' = totalCalls + 1
            /\ lastSeen' = model[a].messages
            /\ \E r \in DirectResponses(a) : result' = Some(r)
            /\ DirectCallDone("get_response", a, None, "")
    /\ UNCHANGED <<vendor, agents, instruction, tools, model, name, user_input,
                   response, current_messages, tool_calls, idx, tool_responses,
                   origInput, enteredVia, enteredInput, firstResponse,
                   undispatched, modelCalls, executed, dispatched, requested,
                   streamv>>

\* The text of the chunks, joined.
RECURSIVE JoinContent(_)
JoinContent(chunks) ==
    IF chunks = <<>> THEN ""
    ELSE chunks[1].content \o JoinContent(Tail(chunks))

\* The caller calls agent.stream("hello") (lines 226-269): system message,
\* user message, one streaming model call; every chunk's content goes to
\* the callback and the joined content is returned.
AgentStream(a) ==
    /\ pc = "idle"
    /\ IF model[a].messages = None THEN TRUE
       ELSE Len(Get(model[a].messages)) < MaxMessages
    /\ totalCalls < MaxModelCalls
    /\ totalCalls' = totalCalls + 1
    /\ LET m == set_user_message(vendor,
                   set_system_message(vendor, model[a], instruction[a]), "hello")
       IN /\ model' = [model EXCEPT ![a] = m]
          /\ lastSeen' = m.messages
    /\ \E chunks \in StreamResponses :
          /\ streams' = Append(streams, [agent |-> a, chunks |-> chunks])
          /\ yielded' = yielded \o chunks
          /\ result' = Some([content |-> JoinContent(chunks),
                             tool_calls |-> Some(<<>>)])
    /\ DirectCallDone("stream", a, Some("hello"), "")
    /\ UNCHANGED <<vendor, agents, instruction, tools, name, user_input,
                   response, current_messages, tool_calls, idx, tool_responses,
                   origInput, enteredVia, enteredInput, firstResponse,
                   undispatched, modelCalls, executed, dispatched, requested,
                   mode, freshAtEntry, thrown>>

\* A caller that changes an agent's tools and calls its model directly.
NextTools ==
    \/ \E a \in ToolSubjects, list \in SettableTools : SetTools(a, list)
    \/ \E a \in ToolSubjects, tool \in AddableTools : AddTool(a, tool)
    \/ \E a \in ToolSubjects, tool_name \in RemovableNames : RemoveTool(a, tool_name)
    \/ \E a \in ToolSubjects : SetUserMessage(a)
    \/ \E a \in ToolSubjects : GetResponseDirect(a)
    \/ \E a \in ToolSubjects : AgentStream(a)
    \/ Finish

SpecTools ==
    Init /\ [][NextTools]_vars

\* ------------------------------------------------------ WorkflowManager
\* The steps a caller creates, each as often as it likes: create_step(A2,
\* "s1") and create_step(B1, "s2").
StepChoices ==
    { [name |-> "s1", agent |-> "A2"], [name |-> "s2", agent |-> "B1"] }

\* A store that keeps the first result under a name.
store_result_once(results, n, r) ==
    [m \in DOMAIN results \cup {n} |->
        IF m \in DOMAIN results THEN results[m] ELSE r]

\* Workflow.results with the result of the step named n stored.
store_result(results, n, r) ==
    [m \in DOMAIN results \cup {n} |-> IF m = n THEN r ELSE results[m]]

\* create_step(agent, name) with an Agent object (lines 63-77), which
\* registers the agent, chained behind the steps created so far with
\* starts_with / then.
CreateStep(a, n) ==
    /\ pc = "idle"
    /\ current_step = 0
    /\ Len(workflow.steps) < MaxSteps
    /\ agents' = add_agent(agents, a)
    /\ workflow' = [workflow EXCEPT !.steps = Append(@, [name |-> n, agent |-> a])]
    /\ UNCHANGED <<vendor, instruction, tools, model, frame, ghost, streamv,
                   lastCall, threads, morev, current_step, current_input, wfRan, wfReturned>>

\* Lines 103-108 for the step at position i with input inp:
\* initialize_user_input(step.agent.name, current_input), then the entry of
\* run_agent(step.agent.name), which initialises again without input.
StepEntry(i, inp) ==
    LET n  == AgentName(workflow.steps[i].agent)
        a  == agents[get_agent(agents, n)]
        m1 == initialize_user_input(vendor, model[a], instruction[a], tools[a], inp)
        m2 == initialize_user_input(vendor, m1, instruction[a], tools[a], None)
    IN /\ model' = [model EXCEPT ![a] = m2]
       /\ name' = n
       /\ agent' = a
       /\ pc' = "get_response"
       /\ user_input' = None
       /\ response' = NoResponse
       /\ current_messages' = <<>>
       /\ tool_calls' = <<>>
       /\ idx' = 1
       /\ tool_responses' = <<>>
       /\ result' = None
       /\ error' = ""
       /\ origInput' = None
       /\ enteredVia' = "workflow"
       /\ enteredInput' = None
       /\ firstResponse' = None
       /\ lastSeen' = None
       /\ undispatched' = None
       /\ modelCalls' = 0
       /\ executed' = <<>>
       /\ dispatched' = <<>>
       /\ mode' = "batch"
       /\ yielded' = <<>>
       /\ streams' = <<>>
       /\ freshAtEntry' = (model[a].messages = None)
       /\ thrown' = ""
       /\ current_step' = i
       /\ current_input' = inp

\* The caller calls run_workflow(name, input_data): lines 82-95, the results
\* of an earlier run are cleared and the first step is entered.
RunWorkflow(inp) ==
    /\ pc = "idle"
    /\ current_step = 0
    /\ workflow.steps # <<>>
    /\ workflow' = [workflow EXCEPT !.results = NoResults]
    /\ wfRan' = <<>>
    /\ wfReturned' = None
    /\ StepEntry(1, inp)
    /\ UNCHANGED <<vendor, agents, instruction, tools, totalCalls, requested,
                   lastCall, threads, morev>>

\* Lines 111-117: the step's run_agent has returned; its result is stored
\* under the step's name.
StepDone ==
    /\ wfRan' = Append(wfRan, [step |-> current_step,
                               input |-> current_input,
                               result |-> Get(result)])
    /\ workflow' = [workflow EXCEPT !.results =
          store_result(@, workflow.steps[current_step].name, Get(result))]

\* ... and the next step is entered with the content of that result.
NextStep ==
    /\ pc = "returned"
    /\ current_step > 0
    /\ current_step < Len(workflow.steps)
    /\ StepDone
    /\ StepEntry(current_step + 1, Some(Get(result).content))
    /\ UNCHANGED <<vendor, agents, instruction, tools, totalCalls, requested,
                   lastCall, threads, morev, wfReturned>>

\* ... or, behind the last step, workflow.results is returned (line 119).
WorkflowReturned ==
    /\ pc = "returned"
    /\ current_step > 0
    /\ current_step = Len(workflow.steps)
    /\ StepDone
    /\ wfReturned' = Some(workflow'.results)
    /\ current_step' = 0
    /\ UNCHANGED <<vendor, agents, instruction, tools, model, frame, ghost,
                   streamv, lastCall, threads, morev, current_input>>

\* An exception of the step's run leaves run_workflow.
WorkflowRaised ==
    /\ pc = "raised"
    /\ current_step > 0
    /\ current_step' = 0
    /\ UNCHANGED <<vendor, agents, instruction, tools, model, frame, ghost,
                   streamv, lastCall, threads, morev, workflow, current_input, wfRan,
                   wfReturned>>

\* The manager driven through run_workflow.
NextWorkflow ==
    \/ \E st \in StepChoices : CreateStep(st.agent, st.name)
    \/ \E inp \in CallerInputs : RunWorkflow(inp)
    \/ GetResponseUnset
    \/ GetResponse
    \/ \E proc \in ProcOutcomes : ProcessToolCall(proc)
    \/ ChainToAgent
    \/ PrepareFinalMessages
    \/ FinalResponse
    \/ ModelRaises
    \/ NextStep
    \/ WorkflowReturned
    \/ WorkflowRaised
    \/ Finish

SpecWorkflow ==
    Init /\ [][NextWorkflow]_vars

\* ------------------------------------------------------ stream_workflow
\* The calls of step_callback, chunk_callback and completion_callback.
StepCall(n, a) ==
    [callback |-> "step", step |-> n, info |-> [name |-> n, agent |-> AgentName(a)]]
ChunkCall(n, chunk) ==
    [callback |-> "chunk", step |-> n, chunk |-> chunk]
ChunkCalls(n, chunks) ==
    [j \in 1..Len(chunks) |-> ChunkCall(n, chunks[j])]
CompletionCall(results) ==
    [callback |-> "completion", results |-> results]

\* Lines 148-164 for the step at position i with input inp: step_callback,
\* initialize_user_input(step.agent.name, current_input), then the entry of
\* run_agent_stream(step.agent.name), which initialises again without input.
StreamStepEntry(i, inp, called) ==
    LET st == workflow.steps[i]
        n  == AgentName(st.agent)
        a  == agents[get_agent(agents, n)]
        m1 == initialize_user_input(vendor, model[a], instruction[a], tools[a], inp)
        m2 == initialize_user_input(vendor, m1, instruction[a], tools[a], None)
    IN /\ callbacks' = Append(called, StepCall(st.name, st.agent))
       /\ model' = [model EXCEPT ![a] = m2]
       /\ name' = n
       /\ agent' = a
       /\ pc' = "stream_entry"
       /\ user_input' = None
       /\ response' = NoResponse
       /\ current_messages' = <<>>
       /\ tool_calls' = <<>>
       /\ idx' = 1
       /\ tool_responses' = <<>>
       /\ result' = None
       /\ error' = ""
       /\ origInput' = None
       /\ enteredVia' = "workflow"
       /\ enteredInput' = None
       /\ firstResponse' = None
       /\ lastSeen' = None
       /\ undispatched' = None
       /\ modelCalls' = 0
       /\ executed' = <<>>
       /\ dispatched' = <<>>
       /\ mode' = "stream"
       /\ yielded' = <<>>
       /\ streams' = <<>>
       /\ freshAtEntry' = (model[a].messages = None)
       /\ thrown' = ""
       /\ current_step' = i
       /\ current_input' = inp

\* The caller calls stream_workflow(name, input_data, step_callback,
\* chunk_callback, completion_callback): lines 132-144, then the first step.
StreamWorkflow(inp) ==
    /\ pc = "idle"
    /\ current_step = 0
    /\ workflow.steps # <<>>
    /\ workflow' = [workflow EXCEPT !.results = NoResults]
    /\ wfRan' = <<>>
    /\ wfReturned' = None
    /\ StreamStepEntry(1, inp, <<>>)
    /\ UNCHANGED <<vendor, agents, instruction, tools, totalCalls, requested,
                   lastCall, threads, deltav, contv, regv>>

\* A stream loop that passes no chunk on to chunk_callback.
StepStreamedUnreported ==
    LET st == workflow.steps[current_step]
        n  == AgentName(st.agent)
        a  == agents[get_agent(agents, n)]
    IN /\ pc = "returned"
       /\ mode = "stream"
       /\ current_step > 0
       /\ callbacks' = callbacks
       /\ model' = [model EXCEPT ![a] =
             initialize_user_input(vendor, model[a], instruction[a], tools[a], None)]
       /\ name' = n
       /\ agent' = a
       /\ pc' = "get_response"
       /\ mode' = "batch"
       /\ user_input' = None
       /\ response' = NoResponse
       /\ current_messages' = <<>>
       /\ tool_calls' = <<>>
       /\ idx' = 1
       /\ tool_responses' = <<>>
       /\ result' = None
       /\ error' = ""
       /\ enteredVia' = "workflow"
       /\ enteredInput' = None
       /\ undispatched' = None
       /\ dispatched' = <<>>
       /\ freshAtEntry' = (model[a].messages = None)
       /\ UNCHANGED <<vendor, agents, instruction, tools, origInput, firstResponse,
                      lastSeen, modelCalls, executed, totalCalls, requested,
                      yielded, streams, thrown, lastCall, wfv, threads, deltav,
                      contv, regv>>

\* A step that is not run again: the last chunk of the stream is taken for
\* the step's result.
StepStreamedOnly ==
    LET st == workflow.steps[current_step]
    IN /\ pc = "returned"
       /\ mode = "stream"
       /\ current_step > 0
       /\ callbacks' = callbacks \o ChunkCalls(st.name, yielded)
       /\ mode' = "batch"
       /\ result' = Some([content |-> yielded[Len(yielded)].content,
                          tool_calls |-> None])
       /\ UNCHANGED <<vendor, agents, instruction, tools, model, pc, name, agent,
                      user_input, response, current_messages, tool_calls, idx,
                      tool_responses, error, ghost, yielded, streams,
                      freshAtEntry, thrown, lastCall, wfv, threads, deltav,
                      contv, regv>>

\* Lines 164-169: the generator of run_agent_stream is exhausted, every
\* chunk it yielded went to chunk_callback; run_agent(step.agent.name) is
\* entered, which initialises the agent without input.
StepStreamed ==
    LET st == workflow.steps[current_step]
        n  == AgentName(st.agent)
        a  == agents[get_agent(agents, n)]
    IN /\ pc = "returned"
       /\ mode = "stream"
       /\ current_step > 0
       /\ callbacks' = callbacks \o ChunkCalls(st.name, yielded)
       /\ model' = [model EXCEPT ![a] =
             initialize_user_input(vendor, model[a], instruction[a], tools[a], None)]
       /\ name' = n
       /\ agent' = a
       /\ pc' = "get_response"
       /\ mode' = "batch"
       /\ user_input' = None
       /\ response' = NoResponse
       /\ current_messages' = <<>>
       /\ tool_calls' = <<>>
       /\ idx' = 1
       /\ tool_responses' = <<>>
       /\ result' = None
       /\ error' = ""
       /\ enteredVia' = "workflow"
       /\ enteredInput' = None
       /\ undispatched' = None
       /\ dispatched' = <<>>
       /\ freshAtEntry' = (model[a].messages = None)
       /\ UNCHANGED <<vendor, agents, instruction, tools, origInput, firstResponse,
                      lastSeen, modelCalls, executed, totalCalls, requested,
                      yielded, streams, thrown, lastCall, wfv, threads, deltav,
                      contv, regv>>

\* Lines 169-173: the step's run_agent has returned; its result is stored
\* under the step's name.
StreamStepDone ==
    /\ wfRan' = Append(wfRan, [step |-> current_step,
                               input |-> current_input,
                               result |-> Get(result),
                               chunks |-> yielded,
                               calls |-> modelCalls + Len(streams),
                               executed |-> executed])
    /\ workflow' = [workflow EXCEPT !.results =
          store_result(@, workflow.steps[current_step].name, Get(result))]

\* Lines 176-178: the next step is entered with the content of that result.
StreamNextStep ==
    /\ pc = "returned"
    /\ mode = "batch"
    /\ current_step > 0
    /\ current_step < Len(workflow.steps)
    /\ StreamStepDone
    /\ StreamStepEntry(current_step + 1, Some(Get(result).content), callbacks)
    /\ UNCHANGED <<vendor, agents, instruction, tools, totalCalls, requested,
                   lastCall, threads, deltav, contv, regv, wfReturned>>

\* Lines 181-182: behind the last step completion_callback is called with
\* workflow.results; stream_workflow returns None.
StreamWorkflowCompleted ==
    /\ pc = "returned"
    /\ mode = "batch"
    /\ current_step > 0
    /\ current_step = Len(workflow.steps)
    /\ StreamStepDone
    /\ callbacks' = Append(callbacks, CompletionCall(workflow'.results))
    /\ current_step' = 0
    /\ UNCHANGED <<vendor, agents, instruction, tools, model, frame, ghost,
                   streamv, lastCall, threads, deltav, contv, regv, current_input,
                   wfReturned>>

\* An exception of one of the step's runs leaves stream_workflow; the chunks
\* the generator had yielded went to chunk_callback before.
StreamWorkflowRaised ==
    /\ pc = "raised"
    /\ current_step > 0
    /\ callbacks' = IF mode = "stream"
                    THEN callbacks \o ChunkCalls(workflow.steps[current_step].name,
                                                 yielded)
                    ELSE callbacks
    /\ current_step' = 0
    /\ UNCHANGED <<vendor, agents, instruction, tools, model, frame, ghost,
                   streamv, lastCall, threads, deltav, contv, regv, workflow,
                   current_input, wfRan, wfReturned>>

\* The manager driven through stream_workflow.
NextStreamWorkflow ==
    \/ \E st \in StepChoices : CreateStep(st.agent, st.name)
    \/ \E inp \in CallerInputs : StreamWorkflow(inp)
    \/ StreamUnset
    \/ StreamDirect
    \/ StreamDetect
    \/ StreamChainToAgent
    \/ StreamFinal
    \/ StreamRaises
    \/ StepStreamed
    \/ GetResponseUnset
    \/ GetResponse
    \/ \E proc \in ProcOutcomes : ProcessToolCall(proc)
    \/ ChainToAgent
    \/ PrepareFinalMessages
    \/ FinalResponse
    \/ ModelRaises
    \/ StreamNextStep
    \/ StreamWorkflowCompleted
    \/ StreamWorkflowRaised
    \/ Finish

SpecStreamWorkflow ==
    Init /\ [][NextStreamWorkflow]_vars

\* ------------------------------------------- add_agent from two threads
\* Line 36 in thread t: _, existing_agent = self.get_agent(agent.name).
\* The threads register different objects.
ThreadAddCheck(t, a) ==
    /\ adders[t].pc = "idle"
    /\ \A u \in Threads \ {t} : adders[u].agent # a
    /\ Len(agents) < MaxRegistered
    /\ adders' = [adders EXCEPT ![t] =
          [pc |-> "checked", agent |-> a,
           existing |-> get_agent(agents, AgentName(a))]]
    /\ UNCHANGED <<corev, deltav, contv, cbv>>

\* Lines 37-38 in thread t: if existing_agent is None: self.agents.append(agent).
ThreadAddAppend(t) ==
    /\ adders[t].pc = "checked"
    /\ agents' = IF adders[t].existing = 0
                 THEN Append(agents, adders[t].agent)
                 ELSE agents
    /\ adders' = [adders EXCEPT ![t] = NotAdding]
    /\ UNCHANGED <<vendor, instruction, tools, model, frame, ghost, streamv,
                   lastCall, wfv, threads, deltav, contv, cbv>>

NextRegistry ==
    \/ \E t \in Threads, a \in AgentObjs : ThreadAddCheck(t, a)
    \/ \E t \in Threads : ThreadAddAppend(t)

SpecRegistry ==
    Init /\ [][NextRegistry]_vars

\* ------------------------------------------------------ Container.run
\* {**a, **b} of two mappings: the keys of both, b's value on a shared key.
merge(a, b) ==
    [k \in DOMAIN a \cup DOMAIN b |-> IF k \in DOMAIN b THEN b[k] ELSE a[k]]

\* Lines 145-146: bytes are decoded as UTF-8, a str is passed on.
decode(output) ==
    IF "bytes" \in DOMAIN output THEN output.bytes ELSE output.str

\* Container.run(arguments), lines 123-157, of a container without
\* return_to.  {**self.environment, **arguments} (line 136) raises TypeError
\* when self.environment is a list; it stands before the try block.
ContainerRun(environment, arguments, outcome) ==
    /\ Len(launches) < MaxRuns
    /\ IF environment.type # "dict"
       THEN /\ launches' = launches
            /\ lastRun' = [environment |-> environment, arguments |-> arguments,
                           launched |-> 0, returned |-> None,
                           raised |-> "TypeError: 'list' object is not a mapping"]
       ELSE /\ launches' = Append(launches,
                    [detach |-> FALSE, remove |-> TRUE,
                     environment |-> merge(environment.dict, arguments)])
            /\ lastRun' = [environment |-> environment, arguments |-> arguments,
                           launched |-> 1,
                           returned |-> IF outcome.ok
                                        THEN Some(decode(outcome.out)) ELSE None,
                           raised |-> IF outcome.ok THEN ""
                                      ELSE "DockerException: Error running container: "
                                             \o outcome.out.str]
    /\ UNCHANGED <<corev, deltav, regv, cbv>>

NextContainer ==
    \E environment \in ContainerEnvironments, arguments \in RunArguments,
       outcome \in RunOutcomes :
         ContainerRun(environment, arguments, outcome)

SpecContainer ==
    Init /\ [][NextContainer]_vars

\* ------------------------------------ OpenAi.generate_stream_response
\* OpenAi.py lines 84-90: a delta of an index not seen yet is stored as the
\* entry of that index, the object itself; then the delta's arguments are
\* appended to the entry's arguments, also when the entry is that delta.
accumulate(calls, index, arguments) ==
    LET stored == IF calls[index] = None
                  THEN [calls EXCEPT ![index] = Some(arguments)]
                  ELSE calls
    IN [stored EXCEPT ![index] = Some(Get(@) \o arguments)]

\* The caller starts a streaming model call of the OpenAI-compatible adapter.
StreamOpen ==
    /\ vendor = "openai"
    /\ fragments # <<>>
    /\ final_tool_calls' = [i \in DeltaIndices |-> None]
    /\ fragments' = <<>>
    /\ UNCHANGED <<corev, contv, regv, cbv>>

\* One iteration of the loop over chunk.choices[0].delta.tool_calls.
ToolCallDelta(index, arguments) ==
    /\ vendor = "openai"
    /\ Len(fragments) < MaxDeltas
    /\ final_tool_calls' = accumulate(final_tool_calls, index, arguments)
    /\ fragments' = Append(fragments, [index |-> index, arguments |-> arguments])
    /\ UNCHANGED <<corev, contv, regv, cbv>>

NextDeltas ==
    \/ StreamOpen
    \/ \E index \in DeltaIndices, arguments \in DeltaFragments :
          ToolCallDelta(index, arguments)

SpecDeltas ==
    Init /\ [][NextDeltas]_vars

\* ------------------------------------------------------ caller threads
\* Tool calls that hand off to no other agent.
HandoffTools ==
    {"transfer_to_b", "transfer_to_a", "escalate"}
ThreadCalls(a) ==
    { c \in RequestableCalls(a, vendor) :
         get_keys_in_tool_output(vendor, c).name \notin HandoffTools }
ThreadResponses(a, budget) ==
    PlainResponses(vendor)
      \cup { ResponseWithCalls(vendor, b) : b \in Batches(ThreadCalls(a), budget) }

\* Some thread is inside run_agent.
InFlight(t) ==
    threads[t].pc \notin {"idle", "returned"}

\* The main thread registers an agent while no call is in flight.
RegisterAgent(a) ==
    /\ \A t \in Threads : ~InFlight(t)
    /\ AddAgent(a)

\* Thread t calls run_agent(ThreadName(t), "hello"): line 232.
ThreadRunAgent(t) ==
    LET k == get_agent(agents, ThreadName(t))
        a == agents[k]
    IN /\ threads[t].pc = "idle"
       /\ k # 0
       /\ \A u \in Threads \ {t} : threads[u].agent # a
       /\ model' = [model EXCEPT ![a] =
             initialize_user_input(vendor, model[a], instruction[a], tools[a],
                                   Some("hello"))]
       /\ threads' = [threads EXCEPT ![t] =
             [@ EXCEPT !.pc = "get_response", !.agent = a,
                       !.m0 = Some(model[a]),
                       !.overlapped = \E u \in Threads \ {t} : InFlight(u)]]
       /\ UNCHANGED <<vendor, agents, instruction, tools, frame, ghost, streamv,
                      lastCall, wfv, morev>>

\* Lines 233-248 in thread t: the first response of the call.
ThreadGetResponse(t) ==
    LET th == threads[t]
        a  == th.agent
    IN /\ th.pc = "get_response"
       /\ totalCalls < MaxModelCalls
       /\ totalCalls' = totalCalls + 1
       /\ \E r \in ThreadResponses(a, MaxToolCalls - requested) :
             /\ requested' = requested +
                   (IF has_tool_calls(r) THEN Len(Get(r.tool_calls)) ELSE 0)
             /\ threads' = [threads EXCEPT ![t] =
                   IF ~has_tool_calls(r)
                   THEN [th EXCEPT !.pc = "returned", !.result = Some(r),
                                   !.responses = Append(@, r)]
                   ELSE [th EXCEPT !.pc = "process_tool_calls",
                                   !.tool_calls = Get(r.tool_calls),
                                   !.current_messages =
                                       Get(model[a].messages)
                                         \o get_assistant_message(vendor, r),
                                   !.idx = 1,
                                   !.tool_responses = <<>>,
                                   !.responses = Append(@, r)]]
       /\ UNCHANGED <<vendor, agents, instruction, tools, model, frame,
                      origInput, enteredVia, enteredInput, firstResponse,
                      lastSeen, undispatched, modelCalls, executed, dispatched,
                      streamv, lastCall, wfv, morev>>

\* One iteration of _process_tool_calls in thread t.
ThreadProcessToolCall(t, proc) ==
    LET th   == threads[t]
        step == process_tool_call(vendor, tools[th.agent], th.tool_calls[th.idx],
                                  proc, None)
    IN /\ th.pc = "process_tool_calls"
       /\ th.idx <= Len(th.tool_calls)
       /\ threads' = [threads EXCEPT ![t] =
             [th EXCEPT !.tool_responses = Append(@, step.response),
                        !.idx = @ + 1,
                        !.procs = Append(@, proc)]]
       /\ UNCHANGED <<vendor, agents, instruction, tools, model, frame, ghost,
                      streamv, lastCall, wfv, morev>>

\* A _prepare_final_messages that stores the history on the agent at the
\* head of the registry, whichever agent the thread runs.
ThreadPrepareFinalOnFirst(t) ==
    LET th == threads[t]
    IN /\ th.pc = "process_tool_calls"
       /\ th.idx > Len(th.tool_calls)
       /\ model' = [model EXCEPT ![agents[1]] =
             prepare_final_messages(vendor, model[agents[1]], th.current_messages,
                                    th.tool_responses)]
       /\ threads' = [threads EXCEPT ![t] = [th EXCEPT !.pc = "final_response"]]
       /\ UNCHANGED <<vendor, agents, instruction, tools, frame, ghost, streamv,
                      lastCall, wfv, morev>>

\* Lines 261-262 in thread t: _prepare_final_messages.
ThreadPrepareFinal(t) ==
    LET th == threads[t]
    IN /\ th.pc = "process_tool_calls"
       /\ th.idx > Len(th.tool_calls)
       /\ model' = [model EXCEPT ![th.agent] =
             prepare_final_messages(vendor, model[th.agent], th.current_messages,
                                    th.tool_responses)]
       /\ threads' = [threads EXCEPT ![t] = [th EXCEPT !.pc = "final_response"]]
       /\ UNCHANGED <<vendor, agents, instruction, tools, frame, ghost, streamv,
                      lastCall, wfv, morev>>

\* Lines 263-270 in thread t: the follow-up response; with tool calls the
\* thread re-enters run_agent(name, None).
ThreadFinalResponse(t) ==
    LET th == threads[t]
        a  == th.agent
    IN /\ th.pc = "final_response"
       /\ totalCalls < MaxModelCalls
       /\ totalCalls' = totalCalls + 1
       /\ \E r \in ThreadResponses(a, MaxToolCalls - requested) :
             /\ requested' = requested +
                   (IF has_tool_calls(r) THEN Len(Get(r.tool_calls)) ELSE 0)
             /\ IF has_tool_calls(r)
                THEN /\ model' = [model EXCEPT ![a] =
                           initialize_user_input(vendor, model[a], instruction[a],
                                                 tools[a], None)]
                     /\ threads' = [threads EXCEPT ![t] =
                           [th EXCEPT !.pc = "get_response",
                                      !.responses = Append(@, r)]]
                ELSE /\ model' = model
                     /\ threads' = [threads EXCEPT ![t] =
                           [th EXCEPT !.pc = "returned", !.result = Some(r),
                                      !.responses = Append(@, r)]]
       /\ UNCHANGED <<vendor, agents, instruction, tools, frame,
                      origInput, enteredVia, enteredInput, firstResponse,
                      lastSeen, undispatched, modelCalls, executed, dispatched,
                      streamv, lastCall, wfv, morev>>

\* Two caller threads, each running its own registered agent once.
NextThreads ==
    \/ \E a \in AgentObjs : RegisterAgent(a)
    \/ \E t \in Threads : ThreadRunAgent(t)
    \/ \E t \in Threads : ThreadGetResponse(t)
    \/ \E t \in Threads, proc \in ProcOutcomes : ThreadProcessToolCall(t, proc)
    \/ \E t \in Threads : ThreadPrepareFinal(t)
    \/ \E t \in Threads : ThreadFinalResponse(t)

SpecThreads ==
    Init /\ [][NextThreads]_vars

\* A caller working on the agents directly.
NextAgent ==
    \/ \E a \in DirectAgents, text \in InstructionTexts : SetSystemMessage(a, text)
    \/ \E a \in DirectAgents : SetUserMessage(a)
    \/ \E a \in DirectAgents, text \in InstructionTexts : SetInstruction(a, text)
    \/ \E a \in DirectAgents, messages \in SetMessagesArgs : SetMessages(a, messages)
    \/ \E a \in DirectAgents : ClearMessages(a)
    \/ Finish

SpecAgent ==
    Init /\ [][NextAgent]_vars

\* The manager driven through run_agent_stream only.
NextStream ==
    \/ \E a \in AgentObjs : AddAgent(a)
    \/ \E n \in CallerNames, inp \in CallerInputs : RunAgentStream(n, inp)
    \/ StreamUnset
    \/ StreamDirect
    \/ StreamDetect
    \/ \E proc \in ProcOutcomes : ProcessToolCall(proc)
    \/ StreamChainToAgent
    \/ PrepareFinalMessages
    \/ StreamFinal
    \/ ModelRaises
    \/ StreamRaises
    \/ Finish

SpecStream ==
    Init /\ [][NextStream]_vars

\* The manager with both entry points: run_agent and run_agent_stream.
NextAll ==
    \/ \E a \in AgentObjs : AddAgent(a)
    \/ \E n \in CallerNames, inp \in CallerInputs : RunAgent(n, inp)
    \/ \E n \in CallerNames, inp \in CallerInputs : RunAgentStream(n, inp)
    \/ GetResponseUnset
    \/ GetResponse
    \/ StreamUnset
    \/ StreamDirect
    \/ StreamDetect
    \/ \E proc \in ProcOutcomes : ProcessToolCall(proc)
    \/ ChainToAgent
    \/ StreamChainToAgent
    \/ PrepareFinalMessages
    \/ FinalResponse
    \/ StreamFinal
    \/ ModelRaises
    \/ StreamRaises
    \/ Finish

SpecAll ==
    Init /\ [][NextAll]_vars

\* The caller of the conversation examples: a history is installed with
\* set_messages and the agent is run, in either mode, without input.
NextInstalled ==
    \/ \E a \in AgentObjs : AddAgent(a)
    \/ \E a \in DirectAgents, h \in InstallableHistories :
          SetMessages(a, AsMessages(h))
    \/ \E n \in CallerNames : RunAgent(n, None)
    \/ \E n \in CallerNames : RunAgentStream(n, None)
    \/ GetResponseUnset
    \/ GetResponse
    \/ StreamUnset
    \/ StreamDirect
    \/ StreamDetect
    \/ \E proc \in ProcOutcomes : ProcessToolCall(proc)
    \/ ChainToAgent
    \/ StreamChainToAgent
    \/ PrepareFinalMessages
    \/ FinalResponse
    \/ StreamFinal
    \/ ModelRaises
    \/ StreamRaises
    \/ Finish

SpecInstalled ==
    Init /\ [][NextInstalled]_vars

\* ------------------------------------------------------------ properties
IsPrefix(s, t) ==
    /\ Len(s) <= Len(t)
    /\ \A i \in 1..Len(s) : s[i] = t[i]

\* The response carries no tool calls: tool_calls is null or empty.
NoToolCalls(r) ==
    \/ r.tool_calls = None
    \/ r.tool_calls = Some(<<>>)

\* C1: when the first model response of run_agent carries no tool calls,
\* run_agent returns exactly that response, has made exactly one model call
\* and has executed no tool.
C1_TerminalDetection ==
    (/\ pc = "returned"
     /\ firstResponse # None
     /\ NoToolCalls(Get(firstResponse)))
        => /\ result = firstResponse
           /\ modelCalls = 1
           /\ executed = <<>>

\* A run whose first response has an empty tool_calls list has returned it.
C1_Witness ==
    /\ pc = "returned"
    /\ firstResponse = Some([content |-> "5", tool_calls |-> Some(<<>>)])
    /\ result = firstResponse

\* C3: a model response that carries tool calls is never dropped: until the
\* dispatch loop has taken up its calls, the manager stands at the start of
\* the dispatch of exactly those calls.
C3_NestedCallsDispatched ==
    undispatched # None
        => /\ pc = "process_tool_calls"
           /\ idx = 1
           /\ Some(tool_calls) = Get(undispatched).tool_calls

\* C4: during a run_agent call the history of the running agent is only
\* ever extended, whatever the adapter.
C4_HistoryOnlyExtended ==
    [][(/\ pc # "idle"
        /\ agent # ""
        /\ agent' = agent
        /\ model[agent].messages # None)
          => /\ model'[agent].messages # None
             /\ IsPrefix(Get(model[agent].messages), Get(model'[agent].messages))]_vars

\* C5: once a tool of the batch has returned an Agent, the dispatch of the
\* batch has stopped: the call that returned it is the last one taken up.
C5_HandoffStopsDispatch ==
    \A j \in 1..Len(dispatched) :
        dispatched[j].did = "agent"
            => /\ j = Len(dispatched)
               /\ pc # "process_tool_calls"

\* A handoff by the first call of a batch of two: the second was not taken up.
C5_Witness ==
    /\ pc = "chain"
    /\ Len(tool_calls) = 2
    /\ Len(dispatched) = 1
    /\ dispatched[1].did = "agent"

\* C6: whenever a tool returns an Agent, in any round, the returned agent is
\* run with the input the caller passed to run_agent.
C6_HandoffKeepsOriginalInput ==
    enteredVia = "handoff" => enteredInput = origInput

\* C7: the registry never holds two agents with one name, and its entries
\* are never replaced or removed, so the first registration of a name wins.
RegistryNamesUnique ==
    \A i, j \in 1..Len(agents) :
        i # j => AgentName(agents[i]) # AgentName(agents[j])
C7_OneAgentPerName ==
    /\ []RegistryNamesUnique
    /\ [][IsPrefix(agents, agents')]_vars

\* A tool of B returned the object A2 while A1 held the name "A": the
\* registry is unchanged and the registered A1 runs.
C7_Witness ==
    /\ enteredVia = "handoff"
    /\ agents = <<"A1", "B1">>
    /\ agent = "A1"
    /\ tool_responses = << [agent |-> "A2"] >>

\* The canonical keys of a vendor-native tool call, its arguments as the
\* claims read them, and the tool of the running agent that answers to it.
Keys(call) ==
    get_keys_in_tool_output(vendor, call)
Malformed(call) ==
    /\ Keys(call).arguments.type = "str"
    /\ Keys(call).arguments.str \notin {StrGood, StrZero}
ArgsOf(call) ==
    IF Keys(call).arguments.type = "dict" THEN Keys(call).arguments.dict
    ELSE IF Keys(call).arguments.str = StrGood THEN ArgsGood ELSE ArgsZero
Unmatched(call) ==
    \A k \in 1..Len(tools[agent]) : tools[agent][k].name # Keys(call).name
FirstMatch(call) ==
    tools[agent][CHOOSE k \in 1..Len(tools[agent]) :
                    /\ tools[agent][k].name = Keys(call).name
                    /\ \A j \in 1..(k - 1) : tools[agent][j].name # Keys(call).name]
\* The call requests a registered function tool f with valid JSON
\* arguments on which f returns a value.
ValueCall(call) ==
    /\ ~Malformed(call)
    /\ ~Unmatched(call)
    /\ \/ FirstMatch(call).impl \in {"add", "mul"}
       \/ FirstMatch(call).impl = "div" /\ ArgsOf(call).b # 0
\* str(f(**args))
ExpectedResult(call) ==
    CASE FirstMatch(call).impl = "add" -> ToString(ArgsOf(call).a + ArgsOf(call).b)
      [] FirstMatch(call).impl = "mul" -> ToString(ArgsOf(call).a * ArgsOf(call).b)
      [] OTHER -> ToString(ArgsOf(call).a \div ArgsOf(call).b)

\* The history the follow-up model call is made with, and where the round's
\* messages sit in it: the tool-result messages are the last ToolMessages
\* entries, the message before them is the model's turn.
History ==
    Get(model[agent].messages)
ToolMessages ==
    IF vendor = "openai" THEN Len(tool_calls) ELSE 1
AssistantRoles ==
    {"assistant", "model"}
\* The id and the content the history holds for the result of call j.
ResultId(j) ==
    CASE vendor = "openai" ->
           Some(History[Len(History) - ToolMessages + j].tool_call_id)
      [] vendor = "anthropic" ->
           Some(History[Len(History)].content[j].tool_use_id)
      [] OTHER ->
           IF "id" \in DOMAIN History[Len(History)].content[j].function_response
           THEN Some(History[Len(History)].content[j].function_response.id)
           ELSE None
ResultContent(j) ==
    CASE vendor = "openai" ->
           History[Len(History) - ToolMessages + j].content
      [] vendor = "anthropic" ->
           History[Len(History)].content[j].content
      [] OTHER ->
           History[Len(History)].content[j].function_response.response.result

\* C2: before the follow-up model call, the history ends with exactly one
\* assistant message for the model's turn followed by the tool-result
\* message(s); the result of every call of a registered function tool with
\* valid arguments carries that call's id and the content str(f(**args)).
C2_ToolRoundTrip ==
    pc = "final_response"
        => /\ Len(History) > ToolMessages + 1
           /\ History[Len(History) - ToolMessages].role \in AssistantRoles
           /\ History[Len(History) - ToolMessages - 1].role \notin AssistantRoles
           /\ \A j \in 1..Len(tool_calls) :
                 ValueCall(tool_calls[j])
                    => /\ ResultId(j) = Some(Keys(tool_calls[j]).id)
                       /\ ResultContent(j) = ExpectedResult(tool_calls[j])

\* The step dispatches the tool call at idx.
Dispatching ==
    /\ pc = "process_tool_calls"
    /\ idx <= Len(tool_calls)
\* The step appends r as the response of the call at idx and goes on with
\* the next call of the batch, invoking nothing and raising nothing.
AnsweredWithoutInvoking(r) ==
    /\ tool_responses' = Append(tool_responses, r)
    /\ idx' = idx + 1
    /\ pc' = "process_tool_calls"
    /\ executed' = executed
    /\ error' = error
    /\ Len(dispatched') = Len(dispatched) + 1

\* C8: a tool call whose arguments are a string that is not valid JSON gets
\* exactly "Error: Invalid JSON in arguments"; no tool is invoked for it,
\* run_agent does not raise, the call is taken up once and the dispatch goes
\* on with the next call of the batch.
C8_InvalidJsonSkipped ==
    [][(Dispatching /\ Malformed(tool_calls[idx]))
          => AnsweredWithoutInvoking(
                ToolResponse(Keys(tool_calls[idx]).id,
                             "Error: Invalid JSON in arguments",
                             Keys(tool_calls[idx]).name))]_vars

\* A malformed call was answered and the call after it was executed.
C8_Witness ==
    /\ pc = "final_response"
    /\ tool_responses =
          << ToolResponse("c8", "Error: Invalid JSON in arguments", "div"),
             ToolResponse("c3", "42", "runner") >>
    /\ Len(executed) = 1

\* C9 as stated: a tool call naming a tool that no entry of the agent's
\* tool list matches gets "Error: Tool '<name>' not found", no tool is
\* invoked and run_agent goes on without raising.
C9_UnknownToolAsStated ==
    [][(Dispatching /\ Unmatched(tool_calls[idx]))
          => AnsweredWithoutInvoking(
                ToolResponse(Keys(tool_calls[idx]).id,
                             "Error: Tool '" \o Keys(tool_calls[idx]).name \o "' not found",
                             Keys(tool_calls[idx]).name))]_vars

\* C9 amended: the same for a tool call whose arguments parse (arguments
\* that are not a malformed JSON string).
C9_UnknownToolNotFound ==
    [][(Dispatching /\ Unmatched(tool_calls[idx]) /\ ~Malformed(tool_calls[idx]))
          => AnsweredWithoutInvoking(
                ToolResponse(Keys(tool_calls[idx]).id,
                             "Error: Tool '" \o Keys(tool_calls[idx]).name \o "' not found",
                             Keys(tool_calls[idx]).name))]_vars

\* An unknown tool was answered, the history was updated and the follow-up
\* model call returned.
C9_Witness ==
    /\ pc = "returned"
    /\ modelCalls = 2
    /\ tool_responses = << ToolResponse("c5", "Error: Tool 'ghost' not found", "ghost") >>
    /\ executed = <<>>

\* The messages of the exceptions the tools of the test doubles raise.
ToolExceptionMessages ==
    { "integer division or modulo by zero",
      "Error running container: exit 1",
      "'str' object has no attribute 'get'" }

\* C10: when the tool invoked for a call raises, the exception is caught and
\* the call's tool_result is "Error executing tool: {message}"; the dispatch
\* goes on, and no exception of a tool ever leaves run_agent.
C10_ToolExceptionCaught ==
    /\ [][(/\ Dispatching
           /\ Len(dispatched') = Len(dispatched) + 1
           /\ dispatched'[Len(dispatched')].did = "raise")
             => /\ tool_responses' =
                      Append(tool_responses,
                             ToolResponse(Keys(tool_calls[idx]).id,
                                "Error executing tool: "
                                   \o dispatched'[Len(dispatched')].message,
                                Keys(tool_calls[idx]).name))
                /\ dispatched'[Len(dispatched')].message \in ToolExceptionMessages
                /\ idx' = idx + 1
                /\ pc' = "process_tool_calls"
                /\ error' = error]_vars
    /\ [](pc = "raised" => error \notin ToolExceptionMessages)

\* A function tool and a Container raised in one batch; both were answered
\* and the follow-up model call was made and returned.
C10_Witness ==
    /\ pc = "returned"
    /\ modelCalls = 2
    /\ tool_responses =
          << ToolResponse("c6",
                "Error executing tool: integer division or modulo by zero", "div"),
             ToolResponse("c3",
                "Error executing tool: Error running container: exit 1", "runner") >>

\* The step is the caller's entry into run_agent or run_agent_stream, that
\* is its call of initialize_user_input, with a name the registry lacks.
EntersUnknownName ==
    /\ pc = "idle"
    /\ pc' # "idle"
    /\ \A i \in 1..Len(agents) : AgentName(agents[i]) # name'

\* C11: run_agent, run_agent_stream and the initialize_user_input they
\* start with, called with a name absent from the registry, fail with the
\* not-found error before any model call or tool execution and leave the
\* registry and every agent's instruction, tools and history unchanged.
C11_UnknownNameFails ==
    /\ [][EntersUnknownName
            => /\ pc' = "raised"
               /\ error' = "ValueError: No agent found with name: " \o name'
               /\ UNCHANGED <<agents, instruction, tools, model, totalCalls>>
               /\ modelCalls' = 0 /\ executed' = <<>> /\ streams' = <<>>]_vars
    /\ [][(pc = "raised" /\ agent = "")
            => /\ pc' = "idle"
               /\ UNCHANGED <<agents, instruction, tools, model, totalCalls>>]_vars

\* run_agent_stream was iterated for the unregistered name "C" while the
\* registered agent A1 holds a history.
C11_Witness ==
    /\ pc = "raised"
    /\ mode = "stream"
    /\ name = "C"
    /\ error = "ValueError: No agent found with name: C"
    /\ agents # <<>>
    /\ model["A1"].messages # None

\* The caller's run_agent call found an agent without history and without
\* tools, was given an input, and its only model response has no tool calls.
FreshPlainRun ==
    /\ pc = "returned"
    /\ mode = "batch"
    /\ enteredVia = "caller"
    /\ freshAtEntry
    /\ tools[agent] = <<>>
    /\ origInput # None
    /\ modelCalls = 1
    /\ NoToolCalls(Get(firstResponse))

\* C12: after run_agent(name, input) on a freshly created agent with no
\* tools whose model answers without tool calls, the agent's history is
\* exactly [system: instruction, user: input] for the OpenAI-compatible
\* adapter and [user: input] for the adapters that keep the instruction
\* outside the list; no assistant or tool message was appended.
C12_FreshRunHistory ==
    FreshPlainRun
        => model[agent].messages =
              Some((IF vendor = "openai"
                    THEN << [role |-> "system", content |-> instruction[agent]] >>
                    ELSE <<>>)
                   \o << [role |-> "user", content |-> Get(origInput)] >>)

\* Scenario A on the OpenAI-compatible adapter: A2 was run with "hello".
C12_Witness ==
    /\ FreshPlainRun
    /\ vendor = "openai"
    /\ agent = "A2"
    /\ model["A2"].messages =
          Some(<< [role |-> "system", content |-> "be A"],
                  [role |-> "user", content |-> "hello"] >>)

\* Entry j of the dispatch log is a run of the "escalate" Container whose
\* process produced output.
EscalateOutput(j) ==
    /\ dispatched[j].name = "escalate"
    /\ dispatched[j].invoked # 0
    /\ dispatched[j].message # "Error running container: exit 1"

\* C13: when the Container configured with return_to = {agent: B,
\* instruction: "Use: {result}"} is dispatched and its process outputs r,
\* B's instruction is "Use: " followed by r, the Container's run returned
\* the Agent B, and run_agent hands off to B with the original input,
\* whatever history B already holds.
C13_ReturnToHandsOff ==
    /\ \A j \in 1..Len(dispatched) :
          EscalateOutput(j)
             => /\ dispatched[j].did = "agent"
                /\ instruction[ReturnToAgent] = replace_placeholder("42")
    /\ (/\ enteredVia = "handoff"
        /\ dispatched # <<>>
        /\ EscalateOutput(Len(dispatched)))
          => /\ agent = ReturnToAgent
             /\ enteredInput = origInput

\* The history the round started from is the one the model call that
\* requested the round's tool calls was made with; RoundTail is what the
\* persisted history holds after it.
BeforeRound ==
    Get(lastSeen)
RoundTail ==
    SubSeq(History, Len(BeforeRound) + 1, Len(History))
\* The tool calls an assistant message names, and the name of one of them.
AssistantCalls(msg) ==
    IF vendor = "openai" THEN msg.tool_calls ELSE msg.content
CallName(entry) ==
    CASE vendor = "openai"    -> entry.function.name
      [] vendor = "anthropic" -> entry.name
      [] OTHER                -> entry.function_call.name
ToolResultRole ==
    IF vendor = "anthropic" THEN "user" ELSE "tool"

\* The persisted history is the history before the round, then the
\* assistant message of the model's turn, then the tool-result message(s),
\* one result per call in call order.
RoundPersisted ==
    /\ IsPrefix(BeforeRound, History)
    /\ Len(RoundTail) = 1 + ToolMessages
    /\ RoundTail[1].role \in AssistantRoles
    /\ Len(AssistantCalls(RoundTail[1])) = Len(tool_calls)
    /\ \A j \in 1..Len(tool_calls) :
          /\ CallName(AssistantCalls(RoundTail[1])[j]) = Keys(tool_calls[j]).name
          /\ ResultContent(j) = tool_responses[j].tool_result
    /\ \A k \in 2..Len(RoundTail) : RoundTail[k].role = ToolResultRole

\* C14: after a dispatch round that ends without handoff the history
\* persisted on the agent is the history before the round, then the
\* assistant message of the model's turn, then the tool-result message(s),
\* one result per call in call order; and the follow-up model call is made
\* with exactly this persisted history.
C14_RoundHistory ==
    /\ [](pc = "final_response" => RoundPersisted)
    /\ [][(pc = "final_response" /\ pc' # "final_response")
            => lastSeen' = model[agent].messages]_vars

\* A round of two calls was persisted and the follow-up call was made with
\* the persisted history.
C14_Witness ==
    /\ pc = "returned"
    /\ modelCalls = 2
    /\ Len(tool_responses) = 2
    /\ lastSeen = model[agent].messages
    /\ Len(Get(lastSeen)) >= 4

\* The system-role messages in the history of agent a.
SystemMessages(a) ==
    IF model[a].messages = None THEN <<>>
    ELSE SelectSeq(Get(model[a].messages), LAMBDA msg : msg.role = "system")

\* C15: for an agent whose history contains a system message, a
\* set_instruction call completes and leaves exactly one system-role
\* message, whose content is the instruction just set.
C15_SetInstructionReplaces ==
    (mode = "set_instruction" /\ SystemMessages(agent) # <<>>)
        => /\ pc = "returned"
           /\ SystemMessages(agent) =
                 << [role |-> "system", content |-> instruction[agent]] >>

\* The caller iterates run_agent_stream for an agent without tools.
ToollessStream ==
    /\ mode = "stream"
    /\ enteredVia = "caller"
    /\ agent # ""
    /\ tools[agent] = <<>>

\* C16: run_agent_stream for an agent with zero tools at registry position
\* 0 makes no non-streaming model call and yields exactly the chunks of one
\* streaming call; an agent with zero tools at another position streams or
\* returns only after the non-streaming detection call.
C16_StreamShortcut ==
    /\ (ToollessStream /\ agents[1] = agent /\ pc = "returned")
          => /\ modelCalls = 0
             /\ Len(streams) = 1
             /\ yielded = streams[1].chunks
    /\ (ToollessStream /\ agents[1] # agent /\ (pc = "returned" \/ streams # <<>>))
          => modelCalls >= 1

\* A2, without tools and first in the registry, streamed two chunks.
C16_Witness ==
    /\ ToollessStream
    /\ pc = "returned"
    /\ agents = <<"A2", "B1">>
    /\ modelCalls = 0
    /\ yielded = << Chunk("he"), Chunk("llo") >>

\* The innermost run_agent_stream call did not take the shortcut, so
\* response is the response of its detection call.
StreamDetected ==
    /\ mode = "stream"
    /\ pc = "returned"
    /\ ~(tools[agent] = <<>> /\ agents[1] = agent)

\* C17: outside the shortcut, when the detection response carries no tool
\* calls, run_agent_stream yields exactly one chunk, that response, and
\* makes no streaming model call.
C17_DetectionYielded ==
    (StreamDetected /\ NoToolCalls(response))
        => /\ yielded = << response >>
           /\ streams = <<>>

\* A1's detection response had no tool calls and was yielded as it is.
C17_Witness ==
    /\ StreamDetected
    /\ agent = "A1"
    /\ modelCalls = 1
    /\ yielded = << [content |-> "hi", tool_calls |-> None] >>
    /\ streams = <<>>

\* C18: outside the shortcut, when the detection response of
\* run_agent_stream carries tool calls and no tool returns an Agent, every
\* call is dispatched, the history is persisted as in the batch loop
\* (assistant message, then tool results), and only then one streaming call
\* is made, with the persisted history, whose chunks are yielded unchanged
\* and in order.
C18_StreamAfterDispatch ==
    /\ (mode = "stream" /\ pc = "final_response")
          => /\ RoundPersisted
             /\ Len(dispatched) = Len(tool_calls)
             /\ streams = <<>>
             /\ yielded = <<>>
    /\ (StreamDetected /\ ~NoToolCalls(response))
          => /\ Len(dispatched) = Len(tool_calls)
             /\ Len(streams) = 1
             /\ yielded = streams[1].chunks
             /\ lastSeen = model[agent].messages

\* A1 dispatched two calls and then streamed two chunks.
C18_Witness ==
    /\ StreamDetected
    /\ agent = "A1"
    /\ Len(tool_responses) = 2
    /\ modelCalls = 1
    /\ yielded = << Chunk("he"), Chunk("llo") >>

\* run_agent_stream was entered for an agent a tool returned.
StreamHandoff ==
    /\ mode = "stream"
    /\ enteredVia = "handoff"

\* C19: in run_agent_stream, when a dispatched tool returns an Agent, the
\* agent handing off has yielded nothing and made no streaming call;
\* run_agent_stream is entered for the returned agent's name with the
\* caller's input, and everything yielded to the caller comes from the
\* streaming calls of the agent handed to.
C19_StreamHandoff ==
    /\ (mode = "stream" /\ pc = "chain")
          => yielded = <<>> /\ streams = <<>>
    /\ StreamHandoff
          => /\ enteredInput = origInput
             /\ \A i \in 1..Len(streams) : streams[i].agent = agent
             /\ Len(streams) <= 1
             /\ streams # <<>> => yielded = streams[1].chunks
    /\ (StreamHandoff /\ pc = "stream_entry")
          => /\ name = AgentName(tool_responses[1].agent)
             /\ AgentName(agent) = name
             /\ yielded = <<>>

\* A1 handed off to B1, and B1, run with the caller's "hello", dispatched a
\* tool and streamed two chunks.
C19_Witness ==
    /\ StreamHandoff
    /\ pc = "returned"
    /\ agent = "B1"
    /\ origInput = Some("hello")
    /\ enteredInput = origInput
    /\ streams = << [agent |-> "B1", chunks |-> << Chunk("he"), Chunk("llo") >>] >>
    /\ yielded = << Chunk("he"), Chunk("llo") >>


\* A run in which a model call has failed.
ModelCallFailed ==
    thrown # ""

\* C20: an exception raised by a model call of run_agent or run_agent_stream,
\* the first or a follow-up one, reaches the caller as it was raised, and it
\* is not retried: once the call has failed the run stands at its raise with
\* that exception, and the only step left is the return of control to the
\* caller, with no model call and no tool execution in between.
C20_ModelErrorPropagates ==
    /\ [](ModelCallFailed => pc = "raised" /\ error = thrown)
    /\ [][ModelCallFailed =>
            /\ pc' = "idle"
            /\ totalCalls' = totalCalls
            /\ executed' = <<>>
            /\ model' = model]_vars

\* A follow-up call fails after a round of tools was executed.
C20_Witness ==
    /\ ModelCallFailed
    /\ pc = "raised"
    /\ error = ModelError
    /\ modelCalls = 2
    /\ Len(executed) >= 1

\* The entry of dispatched and of tool_responses for the call at position j.
TakenUpInOrder(j) ==
    /\ dispatched[j].id = Keys(tool_calls[j]).id
    /\ dispatched[j].name = Keys(tool_calls[j]).name
AnsweredInOrder(j) ==
    /\ tool_responses[j].id = Keys(tool_calls[j]).id
    /\ tool_responses[j].name = Keys(tool_calls[j]).name
    /\ tool_responses[j].tool_result \in STRING

\* C26: the calls of a batch are taken up one at a time in the order of the
\* model's response, each step handling exactly the call at the loop's
\* position; when the loop ends without handoff, tool_responses holds one
\* entry per call, in that order, with the call's id and name and a string
\* tool_result.
C26_SequentialDispatch ==
    /\ [](pc = "process_tool_calls" =>
            /\ Len(dispatched) = idx - 1
            /\ Len(tool_responses) = idx - 1
            /\ \A j \in 1..(idx - 1) : TakenUpInOrder(j) /\ AnsweredInOrder(j))
    /\ [](pc = "final_response" =>
            /\ Len(tool_responses) = Len(tool_calls)
            /\ \A j \in 1..Len(tool_calls) : TakenUpInOrder(j) /\ AnsweredInOrder(j))
    /\ [][Dispatching =>
            /\ Len(dispatched') = Len(dispatched) + 1
            /\ dispatched'[idx].id = Keys(tool_calls[idx]).id
            /\ \/ executed' = executed
               \/ /\ Len(executed') = Len(executed) + 1
                  /\ executed'[Len(executed')].id = Keys(tool_calls[idx]).id]_vars

\* A batch of two on B1: the division by zero was answered with its error
\* string, then the container ran.
C26_Witness ==
    /\ pc = "final_response"
    /\ agent = "B1"
    /\ Len(tool_calls) = 2
    /\ tool_responses =
          << ToolResponse("c6", "Error executing tool: integer division or modulo by zero", "div"),
             ToolResponse("c3", "42", "runner") >>
    /\ Len(executed) = 2

\* The tool at position k of the agent's list is the first one of its name.
FirstOfItsName(a, k) ==
    \A j \in 1..(k - 1) : tools[a][j].name # tools[a][k].name

\* C27: a tool call invokes at most one tool, the first entry of the agent's
\* list with the requested name; an entry behind it with the same name is
\* never invoked, also when the first one raises.
C27_FirstMatchOnly ==
    /\ [](\A j \in 1..Len(executed) :
             FirstOfItsName(executed[j].agent, executed[j].tool))
    /\ [][Dispatching =>
            \/ executed' = executed
            \/ /\ Len(executed') = Len(executed) + 1
               /\ tools[agent][executed'[Len(executed')].tool].name
                     = Keys(tool_calls[idx]).name
               /\ FirstOfItsName(agent, executed'[Len(executed')].tool)]_vars

\* B1's first "div" raised on a division by zero; the second "div" of its
\* list was not tried, and the error went into the response.
C27_Witness ==
    /\ agent = "B1"
    /\ tools["B1"][4].name = "div"
    /\ Len(dispatched) >= 1
    /\ dispatched[1].did = "raise"
    /\ dispatched[1].invoked = 1
    /\ executed = << [id |-> "c6", agent |-> "B1", tool |-> 1] >>
    /\ tool_responses[1].tool_result
          = "Error executing tool: integer division or modulo by zero"

\* C30: at a handoff the history stored on the agent that is left is the one
\* its model call was made with - no assistant message and no tool result of
\* the abandoned batch - and the handoff itself does not write to it; the
\* tools in front of the handoff tool have run by then.
C30_HandoffLeavesNoTrace ==
    /\ [](pc = "chain" => model[agent].messages = lastSeen)
    /\ [][pc = "chain" => model'[agent] = model[agent]]_vars

\* A1's batch was add, then transfer_to_b: add has run, its result is in no
\* history, and A1's history is what the model call saw.
C30_Witness ==
    /\ pc = "chain"
    /\ agent = "A1"
    /\ Len(dispatched) = 2
    /\ dispatched[1].did = "int"
    /\ dispatched[2].did = "agent"
    /\ Len(executed) = 2
    /\ model["A1"].messages = lastSeen
    /\ Len(current_messages) > Len(Get(model["A1"].messages))

\* A direct call `op` is made in this step.
DirectCall(op) ==
    /\ pc = "idle"
    /\ pc' # "idle"
    /\ lastCall'.op = op

\* Every stored message has a role and a content.
MessagesWellFormed ==
    \A a \in AgentObjs :
        model[a].messages # None =>
            \A i \in 1..Len(Get(model[a].messages)) :
                {"role", "content"} \subseteq DOMAIN Get(model[a].messages)[i]

\* What set_messages has to reject: no list, or a list with an entry that is
\* no dict or lacks one of the two keys.
Rejectable(messages) ==
    \/ messages.type # "list"
    \/ \E i \in 1..Len(messages.list) :
          \/ messages.list[i].type # "dict"
          \/ ~({"role", "content"} \subseteq DOMAIN messages.list[i].dict)

\* C23: the history of every model is null after construction; whatever the
\* caller does, every stored message has a role and a content; set_messages
\* raises exactly on an argument that is no list or holds an entry without
\* one of the two keys, and a call that raised has changed no history.
C23_MessagesInvariant ==
    /\ \A a \in AgentObjs : model[a].messages = None
    /\ []MessagesWellFormed
    /\ [][DirectCall("set_messages") =>
            /\ (pc' = "raised") = Rejectable(Get(lastCall'.arg))
            /\ pc' = "raised" => model' = model
            /\ pc' = "returned" =>
                  /\ model'[lastCall'.agent].messages # None
                  /\ Len(Get(model'[lastCall'.agent].messages))
                        = Len(Get(lastCall'.arg).list)]_vars

\* A list whose second entry has no content was rejected on an agent that
\* had a history, and the history is still there.
C23_Witness ==
    /\ pc = "raised"
    /\ lastCall.op = "set_messages"
    /\ error = "ValueError: Each message must be a dictionary with 'role' and 'content' keys"
    /\ Get(lastCall.arg) = AsList(<< AsDict([role |-> "user", content |-> "q1"]),
                                     AsDict([role |-> "user"]) >>)
    /\ model[lastCall.agent].messages
          = Some(<< [role |-> "system", content |-> "old"],
                    [role |-> "user", content |-> "q1"] >>)

\* The history h holds a system message and other messages.
HoldsSystemAndOthers(h) ==
    /\ h # None
    /\ Len(Get(h)) >= 2
    /\ \E i \in 1..Len(Get(h)) : Get(h)[i].role = "system"
\* h with the content of its system messages replaced by text.
SystemReplaced(h, text) ==
    [i \in 1..Len(h) |->
        IF h[i].role = "system" THEN [h[i] EXCEPT !.content = text] ELSE h[i]]

\* C28: set_system_message on a history that holds a system message and
\* other messages replaces the system message where it stands; the other
\* messages stay, in their order, and the length is the same.
C28_SystemMessageReplacedInPlace ==
    [][(/\ DirectCall("set_system_message")
        /\ HoldsSystemAndOthers(model[lastCall'.agent].messages))
          => model'[lastCall'.agent].messages
                = Some(SystemReplaced(Get(model[lastCall'.agent].messages),
                                      Get(lastCall'.arg)))]_vars

\* The user and assistant messages of a history, in order.
IsConversation(msg) ==
    msg.role \in {"user", "assistant"}
Conversation(h) ==
    SelectSeq(h, IsConversation)
\* The caller enters run_agent or run_agent_stream without input, for the
\* agent on which the latest direct call installed the history it still has.
EntersOnInstalled ==
    /\ pc = "idle"
    /\ pc' \in {"get_response", "stream_entry"}
    /\ user_input' = None
    /\ lastCall.op = "set_messages"
    /\ agent' = lastCall.agent
    /\ model[agent'].messages # None
    /\ AsMessages(Get(model[agent'].messages)) = Get(lastCall.arg)
    /\ Conversation(Get(model[agent'].messages)) # <<>>

\* C29: a run without input on an agent whose history h the caller has
\* installed makes its model call with all user and assistant messages of
\* h, in order: the run's entry keeps them, and the first model call is
\* made with the history as the entry left it.
C29_InstalledHistoryReused ==
    /\ [][EntersOnInstalled =>
            /\ model'[agent'].messages # None
            /\ Conversation(Get(model'[agent'].messages))
                  = Conversation(Get(model[agent'].messages))]_vars
    /\ [][(pc \in {"get_response", "stream_entry"} /\ totalCalls' = totalCalls + 1)
            => lastSeen' = model[agent].messages]_vars

\* The adapter of agent a holds the tool list of a's current tools.
AdapterToolsCurrent(a) ==
    model[a].kwargs_tools = set_tools(vendor, model[a], tools[a]).kwargs_tools

\* C24: whenever a model call is made for an agent, through the manager or
\* through the agent's own get_response or stream, the tool list held by the
\* adapter is the one of the agent's current tools, those given at
\* construction included.
C24_AdapterToolsCurrent ==
    [][(totalCalls' = totalCalls + 1 /\ agent' # "")
          => AdapterToolsCurrent(agent')]_vars

\* The first model call of the run of a workflow step that has an input.
StepModelCall ==
    /\ current_step > 0
    /\ enteredVia = "workflow"
    /\ pc = "get_response"
    /\ modelCalls = 0
    /\ totalCalls' = totalCalls + 1
    /\ current_input # None

\* C21: the model call made for a workflow step is made with a history that
\* holds the step's input as a user message; the input of the first step is
\* the caller's, the input of a later step the content of the result of the
\* step before it.
C21_StepInputSeen ==
    /\ [][StepModelCall =>
            \E i \in 1..Len(Get(lastSeen')) :
                Get(lastSeen')[i] = [role |-> "user", content |-> Get(current_input)]]_vars
    /\ [](\A j \in 2..Len(wfRan) :
             wfRan[j].input = Some(wfRan[j - 1].result.content))

\* The steps executed so far are the first steps of the chain, each once.
RanInChainOrder ==
    \A j \in 1..Len(wfRan) : wfRan[j].step = j
\* The returned mapping has the names of the chain as its keys.
ReturnedNames ==
    DOMAIN Get(wfReturned)
        = { workflow.steps[j].name : j \in 1..Len(workflow.steps) }
\* run_workflow returns in this step.
WorkflowReturns ==
    /\ current_step > 0
    /\ pc = "returned"
    /\ current_step' = 0
\* run_workflow clears the results before the first step, runs the steps in
\* chain order and, when it returns, has run every step once.
RunsChainOnce ==
    /\ [][(current_step = 0 /\ current_step' = 1) => workflow'.results = NoResults]_vars
    /\ [](current_step > 0 => Len(wfRan) = current_step - 1 /\ RanInChainOrder)
    /\ [][WorkflowReturns =>
            /\ wfReturned' # None
            /\ Len(wfRan') = Len(workflow.steps)
            /\ RanInChainOrder'
            /\ ReturnedNames']_vars

\* C22 as stated: run_workflow runs each step of the chain once, in order,
\* and the mapping it returns holds, for every executed step, that step's
\* result under the step's name; earlier results are cleared first.
C22_ResultsPerStep ==
    /\ RunsChainOnce
    /\ [][WorkflowReturns =>
            \A j \in 1..Len(wfRan') :
                Get(wfReturned')[workflow.steps[j].name] = wfRan'[j].result]_vars

\* The last executed step of the chain that has the name of step j.
LastOfName(j) ==
    CHOOSE k \in 1..Len(workflow.steps) :
        /\ workflow.steps[k].name = workflow.steps[j].name
        /\ \A l \in (k + 1)..Len(workflow.steps) :
              workflow.steps[l].name # workflow.steps[j].name

\* C22 amended: the same, the mapping holding under each step name the
\* result of the last executed step of that name.
C22_ResultsPerName ==
    /\ RunsChainOnce
    /\ [][WorkflowReturns =>
            \A j \in 1..Len(wfRan') :
                Get(wfReturned')[workflow.steps[j].name]
                    = wfRan'[LastOfName(j)].result]_vars

\* A chain of two steps with different names has returned two different
\* results, each under its step's name.
C22_Witness ==
    /\ pc = "returned"
    /\ current_step = 0
    /\ wfReturned # None
    /\ Len(workflow.steps) = 2
    /\ Len(wfRan) = 2
    /\ workflow.steps[1].name = "s1"
    /\ workflow.steps[2].name = "s2"
    /\ wfRan[1].result # wfRan[2].result
    /\ Get(wfReturned) = [n \in {"s1", "s2"} |->
                             IF n = "s1" THEN wfRan[1].result ELSE wfRan[2].result]

\* The outcome of run_agent(name, inp) on agent a alone, from the history m,
\* when the model answers rs in turn and the tool calls end as ps in turn:
\* the history the agent is left with and the response returned.
RECURSIVE RunAlone(_, _, _, _, _)
RunAlone(a, m, inp, rs, ps) ==
    LET m1 == initialize_user_input(vendor, m, instruction[a], tools[a], inp)
        r1 == rs[1]
    IN IF ~has_tool_calls(r1)
       THEN [m |-> m1, result |-> r1]
       ELSE LET calls == Get(r1.tool_calls)
                n     == Len(calls)
                cur   == Get(m1.messages) \o get_assistant_message(vendor, r1)
                trs   == [i \in 1..n |->
                            process_tool_call(vendor, tools[a], calls[i], ps[i],
                                              None).response]
                m2    == prepare_final_messages(vendor, m1, cur, trs)
                r2    == rs[2]
            IN IF ~has_tool_calls(r2)
               THEN [m |-> m2, result |-> r2]
               ELSE RunAlone(a, m2, None, SubSeq(rs, 3, Len(rs)),
                             SubSeq(ps, n + 1, Len(ps)))

\* C25: run_agent calls made from different threads on distinct registered
\* agents, with no handoff and no registration in flight, do not interfere:
\* each call returns the response, and leaves its agent with the history,
\* that the same call would have produced had it run alone.
C25_ThreadsDoNotInterfere ==
    \A t \in Threads :
        threads[t].pc = "returned" =>
            LET th    == threads[t]
                alone == RunAlone(th.agent, Get(th.m0), Some("hello"),
                                  th.responses, th.procs)
            IN /\ th.result = Some(alone.result)
               /\ model[th.agent] = alone.m

\* Both threads have returned, their calls overlapped, and the agent at the
\* tail of the registry went through a tool round.
C25_Witness ==
    /\ \A t \in Threads : threads[t].pc = "returned"
    /\ \E t \in Threads : threads[t].overlapped
    /\ \E t \in Threads :
          /\ Len(threads[t].responses) >= 2
          /\ threads[t].agent # agents[1]

\* C31: whenever run_agent returns normally, the response it returns
\* carries no tool calls, whatever the number of rounds and handoffs.
C31_ReturnedWithoutToolCalls ==
    (pc = "returned" /\ mode = "batch")
        => /\ result # None
           /\ NoToolCalls(Get(result))

\* run_agent has returned from a nested call that followed a follow-up
\* response with tool calls.
C31_Witness ==
    /\ pc = "returned"
    /\ mode = "batch"
    /\ enteredVia = "nested"
    /\ modelCalls = 3
    /\ result # None

\* run_agent is running; it stands between two model calls.
Running ==
    pc \notin {"idle", "returned", "raised"}
Dispatching32 ==
    pc \in {"process_tool_calls", "chain"}

C33_ResultCarriesCallId ==
    pc = "final_response"
        => \A j \in 1..Len(tool_responses) :
              ResultId(j) = Some(tool_responses[j].id)

\* The argument fragments of the deltas of one index, concatenated in
\* arrival order.
RECURSIVE Concatenated(_, _)
Concatenated(log, index) ==
    IF log = <<>> THEN ""
    ELSE IF Head(log).index = index
    THEN Head(log).arguments \o Concatenated(Tail(log), index)
    ELSE Concatenated(Tail(log), index)

\* C34: in the OpenAI-compatible streaming adapter the arguments string
\* reported for a tool-call index equals the concatenation, in arrival
\* order, of the argument fragments of its deltas, each counted once.
C34_ArgumentsConcatenated ==
    \A index \in DeltaIndices :
        final_tool_calls[index] # None
            => Get(final_tool_calls[index]) = Concatenated(fragments, index)

\* The values a declared environment gives: those of a mapping; a list of
\* {name, type, description} entries declares names without values.
DeclaredValues(environment) ==
    IF environment.type = "dict" THEN environment.dict ELSE [k \in {} |-> ""]

\* C35: Container.run(arguments) starts exactly one non-detached,
\* auto-removed process whose environment is the declared environment
\* overlaid with the caller's arguments, and returns its output as text,
\* for a container declared with the list of {name, type, description}
\* entries as well as for one without declared environment.
C35_RunStartsOneProcess ==
    (lastRun # NoRun /\ ~(lastRun.launched = 1 /\ lastRun.returned = None))
        => /\ lastRun.launched = 1
           /\ launches[Len(launches)] =
                 [detach |-> FALSE, remove |-> TRUE,
                  environment |-> merge(DeclaredValues(lastRun.environment),
                                        lastRun.arguments)]
           /\ lastRun.returned = Some("42")

\* A tool has returned an Agent object whose name the registry holds for
\* another object.
ReturnedNamesake ==
    /\ pc = "chain"
    /\ mode = "batch"
    /\ LET k == get_agent(agents, AgentName(tool_responses[1].agent))
       IN IF k = 0 THEN FALSE ELSE agents[k] # tool_responses[1].agent

\* C37: when a tool returns an Agent that shares its name with a registered
\* agent but is a different object, the registry is left unchanged and the
\* agent then run is the registered one, not the returned one.
C37_RegisteredNamesakeRuns ==
    [][ReturnedNamesake
         => /\ agents' = agents
            /\ pc' = "get_response"
            /\ agent' = agents[get_agent(agents, AgentName(tool_responses[1].agent))]
            /\ agent' # tool_responses[1].agent]_vars

\* A tool of B returned the object A2 while A1, registered behind B1, held
\* the name "A": A1 runs.
C37_Witness ==
    /\ enteredVia = "handoff"
    /\ pc = "get_response"
    /\ agents = <<"B1", "A1">>
    /\ agent = "A1"
    /\ tool_responses = << [agent |-> "A2"] >>

\* The latest streaming model call of the run and whether its last chunk
\* carries tool calls.
LastStream ==
    streams[Len(streams)].chunks
StreamedToolCalls ==
    /\ streams # <<>>
    /\ LastStream[Len(LastStream)].tool_calls # <<>>

\* C38: run_agent_stream dispatches tools at most once per agent it runs:
\* the dispatch loop is entered from the detection call only, the streamed
\* follow-up ends the run with its chunks, tool calls included, passed to
\* the caller and no tool executed; run_agent, given a follow-up with tool
\* calls, starts another round.
C38_StreamDispatchesOnce ==
    /\ [][(mode = "stream" /\ pc' = "process_tool_calls" /\ pc # "process_tool_calls")
            => pc = "stream_entry"]_vars
    /\ [][(mode = "stream" /\ pc = "final_response")
            => /\ pc' \in {"returned", "raised"}
               /\ executed' = executed
               /\ Len(streams') = Len(streams) + 1
               /\ yielded' = yielded \o streams'[Len(streams')].chunks]_vars
    /\ [][(mode = "batch" /\ pc = "final_response" /\ requested' > requested)
            => pc' = "get_response"]_vars

\* A streamed run has returned: one tool was executed, and the follow-up's
\* last chunk, which carries a tool call, was passed to the caller.
C38_Witness ==
    /\ pc = "returned"
    /\ mode = "stream"
    /\ Len(executed) = 1
    /\ StreamedToolCalls
    /\ yielded[Len(yielded)] = LastStream[Len(LastStream)]

\* C40: the registry holds at most one agent per name also when add_agent
\* runs in two threads at once with agents that share a name: under every
\* interleaving of the existence check and the append exactly one of the
\* two is registered.
C40_ConcurrentAddOnePerName ==
    \A n \in {AgentName(a) : a \in AgentObjs} :
        Cardinality({i \in DOMAIN agents : AgentName(agents[i]) = n}) <= 1

\* The callbacks stream_workflow makes for the steps ran: for each step, in
\* order, one step_callback and then one chunk_callback per streamed chunk.
RECURSIVE ExpectedCalls(_, _)
ExpectedCalls(steps, ran) ==
    IF ran = <<>> THEN <<>>
    ELSE LET e  == ran[Len(ran)]
             st == steps[e.step]
         IN ExpectedCalls(steps, SubSeq(ran, 1, Len(ran) - 1))
              \o << StepCall(st.name, st.agent) >>
              \o ChunkCalls(st.name, e.chunks)

\* stream_workflow calls completion_callback in this step.
WorkflowCompletes ==
    /\ callbacks' # callbacks
    /\ callbacks'[Len(callbacks')].callback = "completion"

\* The step whose callbacks the entry at position j of the log belongs to:
\* the nearest step_callback at or before j.
StepCalledBefore(j) ==
    CHOOSE i \in 1..j :
        /\ callbacks[i].callback = "step"
        /\ \A k \in (i + 1)..j : callbacks[k].callback # "step"

\* C36: stream_workflow calls, for each step in chain order, step_callback
\* once, before the chunk_callback calls of that step, chunk_callback once
\* per streamed chunk in order, and completion_callback once, behind the
\* last step, with the mapping from the step names to their results.
C36_CallbackOrder ==
    /\ [](\A j \in 1..Len(callbacks) :
             callbacks[j].callback = "chunk"
                => /\ \E i \in 1..j : callbacks[i].callback = "step"
                   /\ callbacks[StepCalledBefore(j)].step = callbacks[j].step)
    /\ [](\A j \in 1..Len(callbacks) :
             callbacks[j].callback = "completion" => j = Len(callbacks))
    /\ [][WorkflowCompletes =>
            /\ Len(wfRan') = Len(workflow.steps)
            /\ \A j \in 1..Len(wfRan') : wfRan'[j].step = j
            /\ callbacks' = ExpectedCalls(workflow.steps, wfRan')
                               \o << CompletionCall(workflow'.results) >>
            /\ DOMAIN workflow'.results
                  = { workflow.steps[j].name : j \in 1..Len(workflow.steps) }
            /\ \A j \in 1..Len(wfRan') :
                  workflow'.results[workflow.steps[j].name]
                     = wfRan'[LastOfName(j)].result]_vars

\* A chain of two steps has completed; the first step streamed two chunks.
C36_Witness ==
    /\ callbacks # <<>>
    /\ callbacks[Len(callbacks)].callback = "completion"
    /\ Len(wfRan) = 2
    /\ Len(wfRan[1].chunks) = 2
    /\ workflow.steps[1].name # workflow.steps[2].name
    /\ Len(callbacks) = 4 + Len(wfRan[2].chunks) + 1

\* stream_workflow stores the result of a step in this step.
StepStored ==
    /\ callbacks # <<>>
    /\ wfRan' # wfRan
    /\ wfRan' # <<>>

\* The dispatch loop of the step's second run takes up a call that reaches
\* a tool.
SecondRunInvokes ==
    /\ callbacks # <<>>
    /\ current_step > 0
    /\ mode = "batch"
    /\ pc = "process_tool_calls"
    /\ idx <= Len(tool_calls)
    /\ ~Malformed(tool_calls[idx])
    /\ ~Unmatched(tool_calls[idx])

\* C39: in stream_workflow every step runs its agent twice, through
\* run_agent_stream and then through run_agent: a stored step has made at
\* least two model calls, its stored result is the one the second run
\* returned, and the second run executes the tools it is asked for whether
\* or not the first run executed them.
C39_StepRunsTwice ==
    /\ [][StepStored =>
            LET e == wfRan'[Len(wfRan')]
            IN /\ mode = "batch"
               /\ e.calls >= 2
               /\ e.chunks # <<>>
               /\ result # None
               /\ e.result = Get(result)
               /\ NoToolCalls(e.result)
               /\ workflow'.results[workflow.steps[e.step].name] = Get(result)]_vars
    /\ [][SecondRunInvokes =>
            /\ Len(executed') = Len(executed) + 1
            /\ executed'[Len(executed')].id = Keys(tool_calls[idx]).id]_vars

\* A step has been stored whose two runs each executed the tool of the call
\* with the same id, and whose result differs from every streamed chunk.
C39_Witness ==
    /\ callbacks # <<>>
    /\ wfRan # <<>>
    /\ LET e == wfRan[Len(wfRan)]
       IN /\ Len(e.executed) = 2
          /\ e.executed[1].id = e.executed[2].id
          /\ e.executed[1].tool = e.executed[2].tool
          /\ e.calls = 4
          /\ \A j \in 1..Len(e.chunks) : e.chunks[j].content # e.result.content

====
